---------------------------- MODULE Spec2Model ----------------------------
(***************************************************************************)
(* GreyCells coding agent (src/coding_agent.py): the repair loop of main() *)
(* with its collaborators (call_llm, the cleaners, execute_code, qa_judge) *)
(* and the normalisation of the debug agents' decision text; and the two   *)
(* extractors, parse_markdown_with_schema and extract_json_regex, applied  *)
(* to answers written as Markdown (specification ExtractSpec).             *)
(* remove_trailing_slash is applied to short contents in NormalizeSpec,    *)
(* and run_humaneval_benchmark of src/benchmark.py is BenchmarkSpec.       *)
(*                                                                         *)
(* Texts that the code inspects character by character (the Decision       *)
(* section) are sequences of one-character strings.  Texts that the code   *)
(* only stores and passes on (file contents, filenames) are atomic strings.*)
(* Python's None is the string "None" for atomic texts and NoneText for    *)
(* character sequences.                                                    *)
(***************************************************************************)
EXTENDS Integers, Sequences, FiniteSets, TLC

VARIABLES
    pc,                \* position of main(): the next statement group to run
    max_loops,         \* main(): max_loops = max_loop_count
    loop_count,        \* main(): loop_count
    final_success,     \* main(): final_success
    current_code,      \* main(): current_code (dict built by cleaner_source_code)
    current_testcase,  \* main(): current_testcase (dict built by cleaner_test_case)
    is_pass,           \* main(): is_pass of the latest qa_judge (unbound, here FALSE, before the first)
    error_log,         \* main(): error_log, named by the ordinal of the execution that produced it (0: empty)
    debug_response,    \* main(): parsed sections of the latest debug response (cleaned_data)
    debug_fix,         \* main(): debug_fix = cleaner_debug_*(debug_response)
    calls,             \* current_task_stats["calls"]
    exit_at,           \* which statement left the while loop
    report,            \* the value main() returns (current_task_stats + result_code_dict)
    generated,         \* history: the artifacts right after cleaner_test_case
    executed,          \* history: the artifacts handed to the latest execute_code call
    trace,             \* history: the external calls made inside the loop, in order
    xpc,               \* extractor: "idle" inside a run of main(), else the step reached
    xtext,             \* extractor: llm_output / text, the answer handed in
    xschema,           \* extractor: schema of parse_markdown_with_schema
    xresult,           \* extractor: the dict parse_markdown_with_schema returned
    xfields,           \* extractor: schema of extract_json_regex
    xscraped,          \* extractor: the dict extract_json_regex returned
    npc,               \* remove_trailing_slash: "idle", else the step reached
    raw_content,       \* remove_trailing_slash: content, the argument of the first call
    cleaned,           \* remove_trailing_slash: what the first call returned
    recleaned,         \* remove_trailing_slash: what the call on that result returned
    bpc,               \* run_humaneval_benchmark: "idle", else the position reached
    dataset,           \* run_humaneval_benchmark: the task ids of the dataset, in order
    limit,             \* run_humaneval_benchmark: limit
    task_i,            \* run_humaneval_benchmark: i, as the number of tasks the for loop has taken
    results,           \* run_humaneval_benchmark: results
    total,             \* run_humaneval_benchmark: total of the final report
    attempted          \* history: the task ids run_greycells was called for

run_vars == <<pc, max_loops, loop_count, final_success, current_code, current_testcase,
              is_pass, error_log, debug_response, debug_fix, calls, exit_at, report,
              generated, executed, trace>>

xvars == <<xpc, xtext, xschema, xresult, xfields, xscraped>>

nvars == <<npc, raw_content, cleaned, recleaned>>

bvars == <<bpc, dataset, limit, task_i, results, total, attempted>>

vars == <<run_vars, xvars, nvars, bvars>>

(***************************************************************************)
(* Bounds                                                                  *)
(***************************************************************************)
MaxLoops == 3

(***************************************************************************)
(* Character texts                                                         *)
(***************************************************************************)
None == "None"
NoneText == <<"None">>

Whitespace == {" ", "\n", "\t"}

UpperLetters == <<"A", "B", "C", "D", "E", "F", "G", "H", "I", "J", "K", "L", "M",
                  "N", "O", "P", "Q", "R", "S", "T", "U", "V", "W", "X", "Y", "Z">>
LowerLetters == <<"a", "b", "c", "d", "e", "f", "g", "h", "i", "j", "k", "l", "m",
                  "n", "o", "p", "q", "r", "s", "t", "u", "v", "w", "x", "y", "z">>

\* str.upper()
UpperChar(c) ==
    IF \E n \in 1..26 : LowerLetters[n] = c
    THEN UpperLetters[CHOOSE n \in 1..26 : LowerLetters[n] = c]
    ELSE c

upper(s) == [i \in 1..Len(s) |-> UpperChar(s[i])]

RECURSIVE lstrip(_)
lstrip(s) == IF s # <<>> /\ Head(s) \in Whitespace THEN lstrip(Tail(s)) ELSE s

RECURSIVE rstrip(_)
rstrip(s) ==
    IF s # <<>> /\ s[Len(s)] \in Whitespace THEN rstrip(SubSeq(s, 1, Len(s) - 1)) ELSE s

\* str.strip()
strip(s) == rstrip(lstrip(s))

\* str.replace("*", "")
replace_star(s) == SelectSeq(s, LAMBDA c : c # "*")

\* Python's  w in s  on strings
Contains(s, w) ==
    \E i \in 1..(Len(s) - Len(w) + 1) : SubSeq(s, i, i + Len(w) - 1) = w

FIX == <<"F", "I", "X">>
REMAIN == <<"R", "E", "M", "A", "I", "N">>
VETO == <<"V", "E", "T", "O">>


(***************************************************************************)
(* Python dicts are functions from key strings to values.                  *)
(***************************************************************************)
NoneObj == [py_none |-> TRUE]
EmptyDict == [k \in {} |-> None]

\* d[k] = v
SetItem(d, k, v) == [x \in (DOMAIN d) \cup {k} |-> IF x = k THEN v ELSE d[x]]

\* Python truthiness of a text
Truthy(v) == v # None /\ v # ""

(***************************************************************************)
(* Markdown texts.  A response of the model and every text cut out of it   *)
(* is a sequence of one-character strings.                                 *)
(***************************************************************************)
\* the backtick character, which a TLA+ string cannot hold
Tick == "backtick"

\* str.lower()
LowerChar(c) ==
    IF \E n \in 1..26 : UpperLetters[n] = c
    THEN LowerLetters[CHOOSE n \in 1..26 : UpperLetters[n] = c]
    ELSE c

lower(s) == [i \in 1..Len(s) |-> LowerChar(s[i])]

Min(S) == CHOOSE x \in S : \A y \in S : x <= y

\* s[n:]
Drop(s, n) == SubSeq(s, n + 1, Len(s))

\* the number of leading characters of s that equal c
RECURSIVE LeadingRun(_, _)
LeadingRun(s, c) == IF s # <<>> /\ Head(s) = c THEN 1 + LeadingRun(Tail(s), c) ELSE 0

\* the lines of a text, without their line ends
RECURSIVE Lines(_)
Lines(text) ==
    IF text = <<>> THEN <<>>
    ELSE LET nl == {i \in 1..Len(text) : text[i] = "\n"}
         IN  IF nl = {} THEN <<text>>
             ELSE <<SubSeq(text, 1, Min(nl) - 1)>> \o Lines(Drop(text, Min(nl)))

\* the lines joined again, each followed by a line end
RECURSIVE Unlines(_)
Unlines(lines) ==
    IF lines = <<>> THEN <<>> ELSE Head(lines) \o <<"\n">> \o Unlines(Tail(lines))

\* "\n".join(lines)
RECURSIVE JoinLines(_)
JoinLines(lines) ==
    IF lines = <<>> THEN <<>>
    ELSE IF Len(lines) = 1 THEN Head(lines)
    ELSE Head(lines) \o <<"\n">> \o JoinLines(Tail(lines))

(***************************************************************************)
(* md.parse: the block structure of CommonMark that the answers use (ATX   *)
(* headings, fenced code blocks with backticks, paragraphs), as the token  *)
(* stream of markdown-it.  A token is its type and its content.            *)
(***************************************************************************)
Token(type, content) == [type |-> type, content |-> content]

is_blank(line) == strip(line) = <<>>

\* an ATX heading: one to six # and then a blank or the line end
is_heading(line) ==
    LET n == LeadingRun(line, "#")
    IN  n \in 1..6 /\ (Len(line) = n \/ line[n + 1] \in {" ", "\t"})

heading_content(line) == strip(Drop(line, LeadingRun(line, "#")))

\* an opening fence: three or more backticks and an info string without backticks
opens_fence(line) ==
    LET n == LeadingRun(line, Tick)
    IN  n >= 3 /\ \A i \in (n + 1)..Len(line) : line[i] # Tick

\* a closing fence for an opening one of n backticks: at least n backticks and nothing else
closes_fence(line, n) ==
    LeadingRun(line, Tick) >= n /\ is_blank(Drop(line, LeadingRun(line, Tick)))

\* the index of the line that closes the fence opened by lines[1]; without one
\* the fence runs to the end of the text
fence_end(lines) ==
    LET n == LeadingRun(lines[1], Tick)
        closing == {j \in 2..Len(lines) : closes_fence(lines[j], n)}
    IN  IF closing = {} THEN Len(lines) + 1 ELSE Min(closing)

\* the index of the first line that no longer belongs to the paragraph begun by lines[1]
paragraph_end(lines) ==
    LET stop == {j \in 2..Len(lines) :
                    is_blank(lines[j]) \/ is_heading(lines[j]) \/ opens_fence(lines[j])}
    IN  IF stop = {} THEN Len(lines) + 1 ELSE Min(stop)

RECURSIVE md_blocks(_)
md_blocks(lines) ==
    IF lines = <<>> THEN <<>>
    ELSE IF is_blank(lines[1]) THEN md_blocks(Tail(lines))
    ELSE IF is_heading(lines[1]) THEN
        <<Token("heading_open", <<>>),
          Token("inline", heading_content(lines[1])),
          Token("heading_close", <<>>)>> \o md_blocks(Tail(lines))
    ELSE IF opens_fence(lines[1]) THEN
        LET e == fence_end(lines)
        IN  <<Token("fence", Unlines(SubSeq(lines, 2, e - 1)))>>
                \o md_blocks(Drop(lines, IF e > Len(lines) THEN Len(lines) ELSE e))
    ELSE
        LET e == paragraph_end(lines)
            text == [j \in 1..(e - 1) |-> lstrip(lines[j])]
        IN  <<Token("paragraph_open", <<>>),
              Token("inline", rstrip(JoinLines(text))),
              Token("paragraph_close", <<>>)>> \o md_blocks(Drop(lines, e - 1))

\* md.parse(text)
md_parse(text) == md_blocks(Lines(text))

(***************************************************************************)
(* Python values of an extracted record: None is NoneObj, the others carry *)
(* their type.                                                             *)
(***************************************************************************)
Str(s) == [str |-> s]
Dict(d) == [dict |-> d]
List(l) == [list |-> l]
Bool(b) == [bool |-> b]
JSONDecodeError == [error |-> "JSONDecodeError"]

\* a call that ended with an exception instead of a value
Raised(exception) == [raised |-> exception]

\* json.loads on the payloads the answers carry; every other payload of the
\* model (program text, an unfinished object, nothing at all) is not JSON
json_loads(s) ==
    CASE s = <<"{", "}">> -> Dict(EmptyDict)
      [] s = <<"{", "\"", "f", "i", "l", "e", "n", "a", "m", "e", "\"", ":", " ", "\"", "m", ".", "p", "y", "\"", ",", " ", "\"", "p", "a", "c", "k", "a", "g", "e", "s", "\"", ":", " ", "[", "\"", "n", "u", "m", "p", "y", "\"", "]", "}">> ->
             Dict([filename |-> Str(<<"m", ".", "p", "y">>), packages |-> List(<<Str(<<"n", "u", "m", "p", "y">>)>>)])
      [] s = <<"[", "]">> -> List(<<>>)
      [] OTHER -> JSONDecodeError

(***************************************************************************)
(* extract_json_regex                                                      *)
(***************************************************************************)
NoMatch == [no_match |-> TRUE]

\* regex \s* : the first index from i on that holds no whitespace
RECURSIVE skip_ws(_, _)
skip_ws(text, i) ==
    IF i <= Len(text) /\ text[i] \in Whitespace THEN skip_ws(text, i + 1) ELSE i

\* the word w stands at index i of the text
StartsAt(text, i, w) ==
    i + Len(w) - 1 <= Len(text) /\ SubSeq(text, i, i + Len(w) - 1) = w

\* regex "{field}"\s*:\s* matched at index i: the index after the match, 0 without one
key_prefix(text, i, field, ignorecase) ==
    LET quoted == <<"\"">> \o field \o <<"\"">>
        here == IF ignorecase
                THEN i + Len(quoted) - 1 <= Len(text)
                     /\ lower(SubSeq(text, i, i + Len(quoted) - 1)) = lower(quoted)
                ELSE StartsAt(text, i, quoted)
        colon == skip_ws(text, i + Len(quoted))
    IN  IF here /\ colon <= Len(text) /\ text[colon] = ":"
        THEN skip_ws(text, colon + 1) ELSE 0

\* regex "(.*?)(?<!\\)" after the key, matched at index i: group 1 or NoMatch
string_at(text, i, field) ==
    LET v == key_prefix(text, i, field, FALSE)
        ends == {e \in (v + 1)..Len(text) : text[e] = "\"" /\ text[e - 1] # "\\"}
    IN  IF v = 0 \/ v > Len(text) \/ text[v] # "\"" \/ ends = {} THEN NoMatch
        ELSE Str(SubSeq(text, v + 1, Min(ends) - 1))

\* regex \[(.*?)\] after the key, matched at index i: group 1 or NoMatch
list_at(text, i, field) ==
    LET v == key_prefix(text, i, field, FALSE)
        ends == {e \in (v + 1)..Len(text) : text[e] = "]"}
    IN  IF v = 0 \/ v > Len(text) \/ text[v] # "[" \/ ends = {} THEN NoMatch
        ELSE Str(SubSeq(text, v + 1, Min(ends) - 1))

\* regex (true|false) after the key, case ignored, matched at index i
bool_at(text, i, field) ==
    LET v == key_prefix(text, i, field, TRUE)
    IN  IF v = 0 THEN NoMatch
        ELSE IF v + 3 <= Len(text) /\ lower(SubSeq(text, v, v + 3)) = <<"t", "r", "u", "e">>
             THEN Str(SubSeq(text, v, v + 3))
        ELSE IF v + 4 <= Len(text) /\ lower(SubSeq(text, v, v + 4)) = <<"f", "a", "l", "s", "e">>
             THEN Str(SubSeq(text, v, v + 4))
        ELSE NoMatch

\* the three patterns of extract_json_regex, matched at index i
match_at(kind, text, i, field) ==
    CASE kind = "string" -> string_at(text, i, field)
      [] kind = "list" -> list_at(text, i, field)
      [] kind = "bool" -> bool_at(text, i, field)

\* re.search: the match at the leftmost index that has one
re_search(kind, text, field) ==
    LET hits == {i \in 1..Len(text) : match_at(kind, text, i, field) # NoMatch}
    IN  IF hits = {} THEN NoMatch ELSE match_at(kind, text, Min(hits), field)

\* re.findall: the quoted items of the list text, one or more characters
\* between two quote signs
RECURSIVE findall_items(_)
findall_items(raw) ==
    LET quotes == {i \in 1..Len(raw) : raw[i] \in {"\"", "'"}}
    IN  IF quotes = {} THEN <<>>
        ELSE LET i == Min(quotes)
                 later == {j \in quotes : j > i}
             IN  IF later = {} THEN <<>>
                 ELSE IF Min(later) = i + 1 THEN findall_items(Drop(raw, i))
                 ELSE <<SubSeq(raw, i + 1, Min(later) - 1)>>
                          \o findall_items(Drop(raw, Min(later)))

\* the characters of a JSON string body, decoded; NoMatch when it is not one
RECURSIVE json_string(_)
json_string(raw) ==
    IF raw = <<>> THEN Str(<<>>)
    ELSE IF raw[1] \in {"\"", "\n", "\t"} THEN NoMatch
    ELSE IF raw[1] = "\\" THEN
        IF Len(raw) < 2 THEN NoMatch
        ELSE LET c == CASE raw[2] = "n" -> "\n" [] raw[2] = "t" -> "\t"
                        [] raw[2] \in {"\"", "\\", "/"} -> raw[2]
                        [] OTHER -> "invalid"
                 rest == json_string(Drop(raw, 2))
             IN  IF c = "invalid" \/ rest = NoMatch THEN NoMatch
                 ELSE Str(<<c>> \o rest.str)
    ELSE LET rest == json_string(Tail(raw))
         IN  IF rest = NoMatch THEN NoMatch ELSE Str(<<raw[1]>> \o rest.str)

\* lines 109-113: json.loads of the quoted text, the text itself when that fails
safe_json_decode(raw_str) ==
    IF json_string(raw_str) = NoMatch THEN Str(raw_str) ELSE json_string(raw_str)

\* str.endswith
EndsWith(s, w) == Len(s) >= Len(w) /\ SubSeq(s, Len(s) - Len(w) + 1, Len(s)) = w

\* the two artifacts remove_trailing_slash looks for: "/n" and a backslash followed by n
SlashN == <<"/", "n">>
BackslashN == <<"\\", "n">>

\* lines 117-121: the while loop on the stripped content
RECURSIVE drop_artifacts(_)
drop_artifacts(content) ==
    IF EndsWith(content, SlashN) \/ EndsWith(content, BackslashN)
    THEN drop_artifacts(SubSeq(content, 1, Len(content) - 2))
    ELSE content

\* lines 115-122
remove_trailing_slash(content) == strip(drop_artifacts(strip(content)))

\* extract_json_regex leaving None for a string field that has no match
extract_json_regex_NoneDefault(text, schema) ==
    [field \in {f \in DOMAIN schema : schema[f] \in {"string", "list", "bool"}} |->
        CASE schema[field] = "string" ->
                LET match == re_search("string", text, field)
                IN  IF match # NoMatch THEN safe_json_decode(match.str) ELSE NoneObj
          [] schema[field] = "list" ->
                LET match == re_search("list", text, field)
                IN  IF match # NoMatch
                    THEN LET items == findall_items(match.str)
                         IN  List([n \in 1..Len(items) |-> safe_json_decode(items[n])])
                    ELSE List(<<>>)
          [] schema[field] = "bool" ->
                LET match == re_search("bool", text, field)
                IN  IF match # NoMatch
                    THEN Bool(lower(match.str) = <<"t", "r", "u", "e">>) ELSE Bool(FALSE)]

\* lines 154-202; a field whose type is none of the three gets no entry
extract_json_regex(text, schema) ==
    [field \in {f \in DOMAIN schema : schema[f] \in {"string", "list", "bool"}} |->
        CASE schema[field] = "string" ->
                LET match == re_search("string", text, field)
                IN  IF match # NoMatch THEN safe_json_decode(match.str) ELSE Str(<<>>)
          [] schema[field] = "list" ->
                LET match == re_search("list", text, field)
                IN  IF match # NoMatch
                    THEN LET items == findall_items(match.str)
                         IN  List([n \in 1..Len(items) |-> safe_json_decode(items[n])])
                    ELSE List(<<>>)
          [] schema[field] = "bool" ->
                LET match == re_search("bool", text, field)
                IN  IF match # NoMatch
                    THEN Bool(lower(match.str) = <<"t", "r", "u", "e">>) ELSE Bool(FALSE)]

\* the schemas of the regex scrape: field -> type, as its docstring gives them
RegexSchemas ==
    { (<<"f", "i", "l", "e", "n", "a", "m", "e">> :> "string") @@ (<<"p", "a", "c", "k", "a", "g", "e", "s">> :> "list"),
      (<<"f", "i", "l", "e", "n", "a", "m", "e">> :> "string") @@ (<<"i", "s", "_", "p", "a", "s", "s">> :> "bool") }

(***************************************************************************)
(* parse_markdown_with_schema                                              *)
(***************************************************************************)
Reasoning == <<"R", "e", "a", "s", "o", "n", "i", "n", "g">>
Content == <<"C", "o", "n", "t", "e", "n", "t">>
Metadata == <<"M", "e", "t", "a", "d", "a", "t", "a">>
Decision == <<"D", "e", "c", "i", "s", "i", "o", "n">>
File_content == <<"F", "i", "l", "e", "_", "c", "o", "n", "t", "e", "n", "t">>

\* the schemas of the cleaners: header -> (target_key, type); the target keys of
\* a schema are distinct, so a text value is only ever appended to None or a str
coder_schema ==
    (Reasoning :> <<"reasoning", "text">>) @@ (Content :> <<"content", "code">>)
        @@ (Metadata :> <<"metadata", "json">>)

test_schema == coder_schema

debug_schema ==
    (Reasoning :> <<"reasoning", "text">>) @@ (Decision :> <<"decision", "text">>)
        @@ (File_content :> <<"file_content", "code">>)

Schemas == {coder_schema, test_schema, debug_schema}

\* target keys of a schema
Keys(schema) == {schema[h][1] : h \in DOMAIN schema}

\* line 244: {k.lower(): v for k, v in schema.items()}
normalized_schema(schema) ==
    [t \in {lower(h) : h \in DOMAIN schema} |->
        schema[CHOOSE h \in DOMAIN schema : lower(h) = t]]

\* try_json_loads with the except clause left out
try_json_loads_NoExcept(content) == json_loads(strip(content))

\* lines 286-293: json.loads of the block, {} when it is not JSON
try_json_loads(content) ==
    LET json_content == json_loads(strip(content))
    IN  IF json_content = JSONDecodeError THEN Dict(EmptyDict) ELSE json_content

\* lines 246-293: the loop over the tokens, from token i on; the only statement
\* that can raise is the += of line 276, on a value that is no str
RECURSIVE scan(_, _, _, _, _, _)
scan(tokens, schema, i, result, current_target_key, current_type) ==
    IF i > Len(tokens) THEN result
    ELSE
    LET token == tokens[i]
        go(r, k, t) == scan(tokens, schema, i + 1, r, k, t)
        skip == go(result, current_target_key, current_type)
    IN  IF token.type = "heading_open" THEN
            IF i + 1 <= Len(tokens) /\ tokens[i + 1].type = "inline" THEN
                LET title_text == lower(strip(tokens[i + 1].content))
                IN  IF title_text \in DOMAIN normalized_schema(schema)
                    THEN go(result, normalized_schema(schema)[title_text][1],
                                    normalized_schema(schema)[title_text][2])
                    ELSE go(result, None, current_type)
            ELSE skip
        ELSE IF ~Truthy(current_target_key) THEN skip
        ELSE IF current_type = "text" THEN
            IF token.type = "inline" THEN
                IF result[current_target_key] = NoneObj
                THEN go(SetItem(result, current_target_key, Str(token.content)),
                        current_target_key, current_type)
                ELSE IF "str" \in DOMAIN result[current_target_key]
                THEN go(SetItem(result, current_target_key,
                                Str(result[current_target_key].str \o <<"\n">> \o token.content)),
                        current_target_key, current_type)
                ELSE Raised("TypeError")
            ELSE skip
        ELSE IF current_type = "code" THEN
            IF token.type = "fence"
            THEN go(SetItem(result, current_target_key, Str(strip(token.content))),
                    current_target_key, current_type)
            ELSE skip
        ELSE IF current_type = "json" THEN
            IF token.type = "fence" THEN
                go(SetItem(result, current_target_key, try_json_loads(token.content)),
                   current_target_key, current_type)
            ELSE skip
        ELSE skip

\* lines 236-295: the section scan of a token stream
section_scan(tokens, schema) ==
    scan(tokens, schema, 1, [k \in Keys(schema) |-> NoneObj], None, None)

\* lines 226-230: the whole answer is one fenced block that holds one of the two headers
is_wrapper(tokens) ==
    /\ Len(tokens) = 1
    /\ tokens[1].type = "fence"
    /\ \/ Contains(tokens[1].content, <<"#", "#", " ", "R", "e", "a", "s", "o", "n", "i", "n", "g">>)
       \/ Contains(tokens[1].content, <<"#", "#", " ", "C", "o", "n", "t", "e", "n", "t">>)

\* parse_markdown_with_schema followed by a regex scrape of the metadata fields
RECURSIVE parse_markdown_with_schema_ThenScrape(_, _)
parse_markdown_with_schema_ThenScrape(llm_output, schema) ==
    LET tokens == md_parse(llm_output)
        scanned == section_scan(tokens, schema)
    IN  IF is_wrapper(tokens)
        THEN parse_markdown_with_schema_ThenScrape(tokens[1].content, schema)
        ELSE IF "metadata" \in DOMAIN scanned
        THEN SetItem(scanned, "metadata",
                     Dict(extract_json_regex(llm_output, CHOOSE s \in RegexSchemas : TRUE)))
        ELSE scanned

RECURSIVE parse_markdown_with_schema(_, _)
parse_markdown_with_schema(llm_output, schema) ==
    LET tokens == md_parse(llm_output)
    IN  IF is_wrapper(tokens)
        THEN parse_markdown_with_schema(tokens[1].content, schema)
        ELSE section_scan(tokens, schema)

(***************************************************************************)
(* The answers the extractor is run on                                     *)
(***************************************************************************)
MaxWraps == 2

\* the sections of an answer, each as the agents may write it: left out, as the
\* prompt asks for it, or in another case and level, with a block that is not
\* JSON or is a JSON list, with two blocks under one header, with a block that is
\* never closed
ReasoningSections == {<<>>, <<"#", "#", " ", "R", "e", "a", "s", "o", "n", "i", "n", "g", "\n", "w", "h", "y", "\n">>, <<"#", " ", "r", "e", "a", "s", "o", "n", "i", "n", "g", "\n", "b", "e", "c", "a", "u", "s", "e", "\n">>}

NotesSections == {<<>>, <<"#", "#", " ", "N", "o", "t", "e", "s", "\n", "m", "o", "r", "e", "\n">>}

ContentSections ==
    { <<>>,
      <<"#", "#", " ", "C", "o", "n", "t", "e", "n", "t", "\n", Tick, Tick, Tick, "p", "y", "t", "h", "o", "n", "\n", "x", " ", "=", " ", "1", "\n", Tick, Tick, Tick, "\n">>,
      <<"#", " ", "C", "O", "N", "T", "E", "N", "T", "\n", Tick, Tick, Tick, "\n", "y", " ", "=", " ", "2", "\n", Tick, Tick, Tick, "\n", Tick, Tick, Tick, "\n", "z", " ", "=", " ", "3", "\n", Tick, Tick, Tick, "\n">> }

MetadataSections ==
    { <<>>,
      <<"#", "#", " ", "M", "e", "t", "a", "d", "a", "t", "a", "\n", Tick, Tick, Tick, "j", "s", "o", "n", "\n", "{", "\"", "f", "i", "l", "e", "n", "a", "m", "e", "\"", ":", " ", "\"", "m", ".", "p", "y", "\"", ",", " ", "\"", "p", "a", "c", "k", "a", "g", "e", "s", "\"", ":", " ", "[", "\"", "n", "u", "m", "p", "y", "\"", "]", "}", "\n", Tick, Tick, Tick, "\n">>,
      <<"#", "#", " ", "m", "e", "t", "a", "d", "a", "t", "a", "\n", Tick, Tick, Tick, "j", "s", "o", "n", "\n", "{", "\n", Tick, Tick, Tick, "\n">>,
      <<"#", "#", " ", "M", "e", "t", "a", "d", "a", "t", "a", "\n", Tick, Tick, Tick, "j", "s", "o", "n", "\n", "[", "]", "\n", Tick, Tick, Tick, "\n">> }

DebugSections == {<<>>, <<"#", "#", " ", "D", "e", "c", "i", "s", "i", "o", "n", "\n", "F", "I", "X", "\n", "#", "#", " ", "F", "i", "l", "e", "_", "c", "o", "n", "t", "e", "n", "t", "\n", Tick, Tick, Tick, "p", "y", "t", "h", "o", "n", "\n", "x", " ", "=", " ", "2", "\n">>}

Documents ==
    {r \o n \o c \o m \o d : r \in ReasoningSections, n \in NotesSections,
                             c \in ContentSections, m \in MetadataSections,
                             d \in DebugSections}

Backticks(n) == [i \in 1..n |-> Tick]

\* a text put into depth fenced blocks, each fence one backtick longer than the one inside
RECURSIVE Wrapped(_, _)
Wrapped(text, depth) ==
    IF depth = 0 THEN text
    ELSE Backticks(3 + depth) \o <<"m", "a", "r", "k", "d", "o", "w", "n", "\n">> \o Wrapped(text, depth - 1)
            \o Backticks(3 + depth) \o <<"\n">>

\* an answer without any header: the fields written as one JSON object
BareDocument == <<"{", "\"", "c", "o", "n", "t", "e", "n", "t", "\"", ":", " ", "\"", "x", " ", "=", " ", "1", "\"", "}", "\n">>

\* an answer without any header that states a verdict only
BareVerdict == <<"{", "\"", "i", "s", "_", "p", "a", "s", "s", "\"", ":", " ", "T", "r", "u", "e", "}", "\n">>

\* a Content section whose block ends with the two characters backslash and n
ArtifactDocument == <<"#", "#", " ", "C", "o", "n", "t", "e", "n", "t", "\n", Tick, Tick, Tick, "p", "y", "t", "h", "o", "n", "\n", "x", " ", "=", " ", "1", "\\", "n", "\n", Tick, Tick, Tick, "\n">>

Answers ==
    {Wrapped(d, w) : d \in Documents \cup {BareDocument, BareVerdict, ArtifactDocument},
                     w \in 0..MaxWraps}

(***************************************************************************)
(* What the external services can answer (inputs of the model)             *)
(***************************************************************************)
\* the Metadata section of the coder's answer as parse_markdown_with_schema returns it
CoderMetas == {NoneObj, EmptyDict, [filename |-> "main.py", packages |-> <<"numpy">>]}
CoderContents == {None, "src_v0"}

\* the Metadata / Content sections of the test writer's answer
TestMetas == {NoneObj, EmptyDict, [filename |-> "test_main.py"]}
TestContents == {None, "test_v0"}

\* what a debug agent writes under its Decision header
DecisionBodies ==
    { <<>>,
      FIX,
      REMAIN,
      VETO,
      <<"*", "*", "f", "i", "x", "*", "*">>,
      <<"R", "e", "m", "a", "i", "n">>,
      <<"v", "e", "t", "o">>,
      <<"N", "O", " ", "F", "I", "X">>,
      <<"M", "A", "Y", "B", "E">> }

\* cleaned_data["decision"] of an answer, NoneText when it is None
decision_of(answer) ==
    LET cleaned_data == parse_markdown_with_schema(answer, debug_schema)
    IN  IF cleaned_data["decision"] = NoneObj THEN NoneText ELSE cleaned_data["decision"].str

\* the decision texts the parser hands to the debug cleaners: of an answer
\* without a Decision section, and of answers with one (the title of the
\* section is part of the text, see lines 248-276)
DecisionTexts ==
    {decision_of(<<"I", " ", "c", "o", "u", "l", "d", " ", "n", "o", "t", " ", "d", "e", "c", "i", "d", "e", ".", "\n">>)}
        \cup {decision_of(<<"#", "#", " ", "D", "e", "c", "i", "s", "i", "o", "n", "\n">> \o body \o <<"\n">>) : body \in DecisionBodies}

\* the part of a decision text after the title of its section
section_body(decision) ==
    IF Len(decision) > Len(Decision) THEN Drop(decision, Len(Decision) + 1) ELSE <<>>

\* the File_content section of a debug answer (None: no fenced block was found)
FileContents == {None, "", "fix_a"}

DebugResponses == [decision : DecisionTexts, file_content : FileContents]
NoResponse == [decision |-> NoneText, file_content |-> None]
NoFix == [decision |-> NoneText, file_content |-> None]

(***************************************************************************)
(* Cleaners                                                                *)
(***************************************************************************)
\* cleaner_source_code: TypeError on source_code[:100] or on meta["content"] = ...
cleaner_source_code_raises(cleaned_data) ==
    cleaned_data.content = None \/ cleaned_data.metadata = NoneObj

cleaner_source_code(cleaned_data) ==
    SetItem(cleaned_data.metadata, "content", cleaned_data.content)

\* cleaner_test_case: AttributeError on meta.get(...) when meta is None
cleaner_test_case_raises(cleaned_data) == cleaned_data.metadata = NoneObj

cleaner_test_case(cleaned_data) ==
    LET m1 == SetItem(cleaned_data.metadata, "content", cleaned_data.content)
        m2 == SetItem(m1, "reasoning", cleaned_data.reasoning)
    IN  IF "filename" \notin DOMAIN m2 \/ ~Truthy(m2["filename"])
        THEN SetItem(m2, "filename", "test.py")
        ELSE m2

\* .strip().upper().replace("*", "")
clean_decision(raw) == replace_star(upper(strip(raw)))

\* cleaner_debug_test / cleaner_debug_source: AttributeError on None.strip()
cleaner_debug_raises(cleaned_data) == cleaned_data.decision = NoneText

cleaner_debug_test(cleaned_data) ==
    LET d == clean_decision(cleaned_data.decision)
    IN  [decision |-> IF Contains(d, FIX) THEN FIX
                      ELSE IF Contains(d, REMAIN) THEN REMAIN
                      ELSE d,
         file_content |-> cleaned_data.file_content]

cleaner_debug_source(cleaned_data) ==
    LET d == clean_decision(cleaned_data.decision)
    IN  [decision |-> IF Contains(d, FIX) THEN FIX
                      ELSE IF Contains(d, VETO) THEN VETO
                      ELSE d,
         file_content |-> cleaned_data.file_content]

(***************************************************************************)
(* execute_code + qa_judge                                                 *)
(***************************************************************************)
\* execute_code raises before its try block: KeyError on a missing key,
\* TypeError on  "import unittest..." + None
execute_code_raises(source_code, test_code) ==
    \/ "packages" \notin DOMAIN source_code
    \/ "filename" \notin DOMAIN source_code
    \/ "filename" \notin DOMAIN test_code
    \/ test_code["content"] = None

\* "raise": creating the e2b session, pip install or files.write failed (all of them
\* outside the try block)
ExecOutcomes(source_code, test_code) ==
    IF execute_code_raises(source_code, test_code)
    THEN {"raise"}
    ELSE {"pass", "fail", "raise"}

Executions == SelectSeq(trace, LAMBDA e : e.call = "exec")
Arbitrations == SelectSeq(trace, LAMBDA e : e.call \in {"arb_test", "arb_source"})

\* log: the error_log main() holds when the call is made; the debug prompts built at
\* lines 751-756 and 796-801 carry it as "Execution Output"
Event(call, out) == [call |-> call, loop |-> loop_count, out |-> out, log |-> error_log]

(***************************************************************************)
(* call_llm                                                                *)
(***************************************************************************)
\* call_llm counting every answer twice
call_llm_calls_CountsTwice(no_section_found) ==
    IF no_section_found THEN {calls, calls + 2} ELSE {calls + 2}

\* lines 79-95: the values current_task_stats["calls"] can have after call_llm returned.
\* An answer without candidates is returned as an error text before the counter is
\* incremented; such a text has none of the sections the cleaners look for.
call_llm_calls(no_section_found) ==
    IF no_section_found THEN {calls, calls + 1} ELSE {calls + 1}

(***************************************************************************)
(* main(): initial state and generation                                    *)
(***************************************************************************)
RunInit ==
    /\ pc = "pm"
    /\ max_loops \in (-1)..MaxLoops
    /\ loop_count = 0
    /\ final_success = FALSE
    /\ current_code = NoneObj
    /\ current_testcase = NoneObj
    /\ is_pass = FALSE
    /\ error_log = 0
    /\ debug_response = NoResponse
    /\ debug_fix = NoFix
    /\ calls = 0
    /\ exit_at = "none"
    /\ report = NoneObj
    /\ generated = NoneObj
    /\ executed = NoneObj
    /\ trace = <<>>

\* remove_trailing_slash and run_humaneval_benchmark have not been called
NormalizeIdle ==
    /\ npc = "idle"
    /\ raw_content = <<>>
    /\ cleaned = <<>>
    /\ recleaned = <<>>

BenchmarkIdle ==
    /\ bpc = "idle"
    /\ dataset = <<>>
    /\ limit = 0
    /\ task_i = 0
    /\ results = <<>>
    /\ total = 0
    /\ attempted = <<>>

Init ==
    /\ RunInit
    /\ xpc = "idle"
    /\ xtext = <<>>
    /\ xschema = coder_schema
    /\ xresult = NoneObj
    /\ xfields = EmptyDict
    /\ xscraped = NoneObj
    /\ NormalizeIdle
    /\ BenchmarkIdle

\* lines 696-700: the PM agent's call; call_llm leaves by sys.exit(1) on a transport error
PMAgent ==
    /\ pc = "pm"
    /\ \/ pc' = "coder" /\ calls' \in call_llm_calls(TRUE)
       \/ pc' = "exited" /\ UNCHANGED calls
    /\ UNCHANGED <<xvars, nvars, bvars, max_loops, loop_count, final_success, current_code, current_testcase,
                   is_pass, error_log, debug_response, debug_fix, exit_at, report,
                   generated, executed, trace>>

\* lines 704-709: the coder's call and cleaner_source_code
InitialCoder ==
    /\ pc = "coder"
    /\ \/ \E m \in CoderMetas, c \in CoderContents :
            LET cleaned_data == [metadata |-> m, content |-> c]
            IN  /\ calls' \in call_llm_calls(m = NoneObj /\ c = None)
                /\ IF cleaner_source_code_raises(cleaned_data)
                   THEN pc' = "raised" /\ UNCHANGED current_code
                   ELSE pc' = "testcase" /\ current_code' = cleaner_source_code(cleaned_data)
       \/ pc' = "exited" /\ UNCHANGED <<calls, current_code>>
    /\ UNCHANGED <<xvars, nvars, bvars, max_loops, loop_count, final_success, current_testcase, is_pass,
                   error_log, debug_response, debug_fix, exit_at, report, generated, executed, trace>>

\* lines 713-723: the test writer's call, cleaner_test_case, loop configuration
TestcaseAgent ==
    /\ pc = "testcase"
    /\ \/ \E m \in TestMetas, c \in TestContents :
            LET cleaned_data == [metadata |-> m, content |-> c, reasoning |-> "strategy"]
            IN  /\ calls' \in call_llm_calls(m = NoneObj /\ c = None)
                /\ IF cleaner_test_case_raises(cleaned_data)
                   THEN pc' = "raised" /\ UNCHANGED <<current_testcase, generated>>
                   ELSE /\ pc' = "loop"
                        /\ current_testcase' = cleaner_test_case(cleaned_data)
                        /\ generated' = [code |-> current_code,
                                         test |-> cleaner_test_case(cleaned_data)]
       \/ pc' = "exited" /\ UNCHANGED <<calls, current_testcase, generated>>
    /\ UNCHANGED <<xvars, nvars, bvars, max_loops, loop_count, final_success, current_code, is_pass,
                   error_log, debug_response, debug_fix, exit_at, report, executed, trace>>

(***************************************************************************)
(* main(): the repair loop                                                 *)
(***************************************************************************)
\* LoopTop with the increment of loop_count left out of the loop head
LoopTop_NoIncrement ==
    /\ pc = "loop"
    /\ IF loop_count < max_loops
       THEN pc' = "execute" /\ UNCHANGED <<loop_count, exit_at>>
       ELSE pc' = "end" /\ exit_at' = "while" /\ UNCHANGED loop_count
    /\ UNCHANGED <<xvars, nvars, bvars, max_loops, final_success, current_code, current_testcase, is_pass,
                   error_log, debug_response, debug_fix, calls, report, generated, executed, trace>>

\* LoopTop testing the budget only after the first iteration (a do-while loop)
LoopTop_BodyFirst ==
    /\ pc = "loop"
    /\ IF loop_count < max_loops \/ loop_count = 0
       THEN pc' = "execute" /\ loop_count' = loop_count + 1 /\ UNCHANGED exit_at
       ELSE pc' = "end" /\ exit_at' = "while" /\ UNCHANGED loop_count
    /\ UNCHANGED <<xvars, nvars, bvars, max_loops, final_success, current_code, current_testcase, is_pass,
                   error_log, debug_response, debug_fix, calls, report, generated, executed, trace>>

\* lines 726-727: while loop_count < max_loops: loop_count += 1
LoopTop ==
    /\ pc = "loop"
    /\ IF loop_count < max_loops
       THEN pc' = "execute" /\ loop_count' = loop_count + 1 /\ UNCHANGED exit_at
       ELSE pc' = "end" /\ exit_at' = "while" /\ UNCHANGED loop_count
    /\ UNCHANGED <<xvars, nvars, bvars, max_loops, final_success, current_code, current_testcase, is_pass,
                   error_log, debug_response, debug_fix, calls, report, generated, executed, trace>>

\* RunAndJudge without the break after a passed execution
RunAndJudge_NoBreak(budget_check, pass_exit, next) ==
    \E out \in ExecOutcomes(current_code, current_testcase) :
        /\ trace' = Append(trace, Event("exec", out))
        /\ executed' = [code |-> current_code, test |-> current_testcase]
        /\ CASE out = "raise" ->
                  /\ pc' = "raised"
                  /\ UNCHANGED <<is_pass, error_log, final_success, exit_at>>
             [] out = "pass" ->
                  /\ is_pass' = TRUE
                  /\ error_log' = 0
                  /\ final_success' = TRUE
                  /\ IF budget_check /\ loop_count = max_loops
                     THEN pc' = "end" /\ exit_at' = "max_loops"
                     ELSE pc' = next /\ UNCHANGED exit_at
             [] out = "fail" ->
                  /\ is_pass' = FALSE
                  /\ error_log' = Len(Executions) + 1
                  /\ UNCHANGED final_success
                  /\ IF budget_check /\ loop_count = max_loops
                     THEN pc' = "end" /\ exit_at' = "max_loops"
                     ELSE pc' = next /\ UNCHANGED exit_at

\* RunAndJudge with the budget test one iteration early
RunAndJudge_BudgetOffByOne(budget_check, pass_exit, next) ==
    \E out \in ExecOutcomes(current_code, current_testcase) :
        /\ trace' = Append(trace, Event("exec", out))
        /\ executed' = [code |-> current_code, test |-> current_testcase]
        /\ CASE out = "raise" ->
                  /\ pc' = "raised"
                  /\ UNCHANGED <<is_pass, error_log, final_success, exit_at>>
             [] out = "pass" ->
                  /\ is_pass' = TRUE
                  /\ error_log' = 0
                  /\ final_success' = TRUE
                  /\ exit_at' = pass_exit
                  /\ pc' = "end"
             [] out = "fail" ->
                  /\ is_pass' = FALSE
                  /\ error_log' = Len(Executions) + 1
                  /\ UNCHANGED final_success
                  /\ IF budget_check /\ loop_count >= max_loops - 1
                     THEN pc' = "end" /\ exit_at' = "max_loops"
                     ELSE pc' = next /\ UNCHANGED exit_at

\* lines 731-748 (first execution) and 780-791 (re-execution): execute_code, qa_judge
\* and the branches on is_pass; after a failure the loop goes on at pc = next
RunAndJudge(budget_check, pass_exit, next) ==
    \E out \in ExecOutcomes(current_code, current_testcase) :
        /\ trace' = Append(trace, Event("exec", out))
        /\ executed' = [code |-> current_code, test |-> current_testcase]
        /\ CASE out = "raise" ->
                  /\ pc' = "raised"
                  /\ UNCHANGED <<is_pass, error_log, final_success, exit_at>>
             [] out = "pass" ->
                  /\ is_pass' = TRUE
                  /\ error_log' = 0
                  /\ final_success' = TRUE
                  /\ exit_at' = pass_exit
                  /\ pc' = "end"
             [] out = "fail" ->
                  /\ is_pass' = FALSE
                  /\ error_log' = Len(Executions) + 1
                  /\ UNCHANGED final_success
                  /\ IF budget_check /\ loop_count = max_loops
                     THEN pc' = "end" /\ exit_at' = "max_loops"
                     ELSE pc' = next /\ UNCHANGED exit_at

\* Execute handing a failure straight to the SOURCE debug agent
Execute_SkipsTestArbitration ==
    /\ pc = "execute"
    /\ RunAndJudge(TRUE, "pass", "arb_source")
    /\ UNCHANGED <<xvars, nvars, bvars, max_loops, loop_count, current_code, current_testcase,
                   debug_response, debug_fix, calls, report, generated>>

\* Execute without the budget break of lines 746-748
Execute_NoBudgetBreak ==
    /\ pc = "execute"
    /\ RunAndJudge(FALSE, "pass", "arb_test")
    /\ UNCHANGED <<xvars, nvars, bvars, max_loops, loop_count, current_code, current_testcase,
                   debug_response, debug_fix, calls, report, generated>>

\* lines 731-748
Execute ==
    /\ pc = "execute"
    /\ RunAndJudge(TRUE, "pass", "arb_test")
    /\ UNCHANGED <<xvars, nvars, bvars, max_loops, loop_count, current_code, current_testcase,
                   debug_response, debug_fix, calls, report, generated>>

\* apply_test_decision with an unrecognised decision treated like REMAIN
apply_test_decision_DefaultRemain(fix) ==
    CASE fix.decision = FIX ->
           /\ current_testcase' = SetItem(current_testcase, "content", fix.file_content)
           /\ pc' = "reexecute"
           /\ trace' = Append(trace, Event("arb_test", "FIX"))
           /\ UNCHANGED exit_at
      [] OTHER ->
           /\ pc' = "arb_source"
           /\ trace' = Append(trace, Event("arb_test", "REMAIN"))
           /\ UNCHANGED <<current_testcase, exit_at>>

\* apply_test_decision with re_execute left False after a fix
apply_test_decision_NoReExecute(fix) ==
    CASE fix.decision = FIX ->
           /\ current_testcase' = SetItem(current_testcase, "content", fix.file_content)
           /\ pc' = "arb_source"
           /\ trace' = Append(trace, Event("arb_test", "FIX"))
           /\ UNCHANGED exit_at
      [] fix.decision = REMAIN ->
           /\ pc' = "arb_source"
           /\ trace' = Append(trace, Event("arb_test", "REMAIN"))
           /\ UNCHANGED <<current_testcase, exit_at>>
      [] OTHER ->
           /\ pc' = "end"
           /\ exit_at' = "unknown_test"
           /\ trace' = Append(trace, Event("arb_test", "UNKNOWN"))
           /\ UNCHANGED current_testcase

\* apply_test_decision with the assignment of line 774 (commented out) in force
apply_test_decision_RemainOverwrites(fix) ==
    CASE fix.decision = FIX ->
           /\ current_testcase' = SetItem(current_testcase, "content", fix.file_content)
           /\ pc' = "reexecute"
           /\ trace' = Append(trace, Event("arb_test", "FIX"))
           /\ UNCHANGED exit_at
      [] fix.decision = REMAIN ->
           /\ current_testcase' = SetItem(current_testcase, "content", fix.file_content)
           /\ pc' = "arb_source"
           /\ trace' = Append(trace, Event("arb_test", "REMAIN"))
           /\ UNCHANGED exit_at
      [] OTHER ->
           /\ pc' = "end"
           /\ exit_at' = "unknown_test"
           /\ trace' = Append(trace, Event("arb_test", "UNKNOWN"))
           /\ UNCHANGED current_testcase

\* lines 764-777: the branch on the TESTCASE debug agent's decision
apply_test_decision(fix) ==
    CASE fix.decision = FIX ->
           /\ current_testcase' = SetItem(current_testcase, "content", fix.file_content)
           /\ pc' = "reexecute"
           /\ trace' = Append(trace, Event("arb_test", "FIX"))
           /\ UNCHANGED exit_at
      [] fix.decision = REMAIN ->
           /\ pc' = "arb_source"
           /\ trace' = Append(trace, Event("arb_test", "REMAIN"))
           /\ UNCHANGED <<current_testcase, exit_at>>
      [] OTHER ->
           /\ pc' = "end"
           /\ exit_at' = "unknown_test"
           /\ trace' = Append(trace, Event("arb_test", "UNKNOWN"))
           /\ UNCHANGED current_testcase

\* lines 750-777: the TESTCASE debug agent: call_llm, cleaner_debug_test, the branch
ArbitrateTest ==
    /\ pc = "arb_test"
    /\ \/ \E cleaned_data \in DebugResponses :
            /\ calls' \in call_llm_calls(cleaned_data = NoResponse)
            /\ debug_response' = cleaned_data
            /\ IF cleaner_debug_raises(cleaned_data)
               THEN /\ pc' = "raised"
                    /\ trace' = Append(trace, Event("arb_test", "raise"))
                    /\ UNCHANGED <<debug_fix, current_testcase, exit_at>>
               ELSE /\ debug_fix' = cleaner_debug_test(cleaned_data)
                    /\ apply_test_decision(cleaner_debug_test(cleaned_data))
       \/ /\ pc' = "exited"
          /\ trace' = Append(trace, Event("arb_test", "exit"))
          /\ UNCHANGED <<calls, debug_response, debug_fix, current_testcase, exit_at>>
    /\ UNCHANGED <<xvars, nvars, bvars, max_loops, loop_count, final_success, current_code, is_pass,
                   error_log, report, generated, executed>>

\* ReExecute without the check of is_pass after the re-execution
ReExecute_IgnoresResult ==
    /\ pc = "reexecute"
    /\ \E out \in ExecOutcomes(current_code, current_testcase) :
          /\ trace' = Append(trace, Event("exec", out))
          /\ IF out = "raise"
             THEN pc' = "raised" /\ UNCHANGED <<is_pass, error_log>>
             ELSE /\ pc' = "arb_source"
                  /\ is_pass' = (out = "pass")
                  /\ error_log' = IF out = "pass" THEN 0 ELSE Len(Executions) + 1
    /\ UNCHANGED <<xvars, nvars, bvars, max_loops, loop_count, final_success, exit_at, current_code,
                   current_testcase, debug_response, debug_fix, calls, report, generated>>
    /\ executed' = [code |-> current_code, test |-> current_testcase]

\* ReExecute with a failed re-execution leaving error_log as the first execution set it
ReExecute_KeepsLog ==
    /\ pc = "reexecute"
    /\ \E out \in ExecOutcomes(current_code, current_testcase) :
          /\ trace' = Append(trace, Event("exec", out))
          /\ CASE out = "raise" ->
                    /\ pc' = "raised"
                    /\ UNCHANGED <<is_pass, error_log, final_success, exit_at>>
               [] out = "pass" ->
                    /\ is_pass' = TRUE
                    /\ error_log' = 0
                    /\ final_success' = TRUE
                    /\ exit_at' = "repass"
                    /\ pc' = "end"
               [] out = "fail" ->
                    /\ is_pass' = FALSE
                    /\ pc' = "arb_source"
                    /\ UNCHANGED <<error_log, final_success, exit_at>>
    /\ executed' = [code |-> current_code, test |-> current_testcase]
    /\ UNCHANGED <<xvars, nvars, bvars, max_loops, loop_count, current_code, current_testcase,
                   debug_response, debug_fix, calls, report, generated>>

\* lines 779-791: re-execution after a TEST fix
ReExecute ==
    /\ pc = "reexecute"
    /\ RunAndJudge(FALSE, "repass", "arb_source")
    /\ UNCHANGED <<xvars, nvars, bvars, max_loops, loop_count, current_code, current_testcase,
                   debug_response, debug_fix, calls, report, generated>>

\* apply_source_decision with the VETO branch installing the returned content
apply_source_decision_VetoOverwrites(fix) ==
    CASE fix.decision = FIX ->
           /\ current_code' = SetItem(current_code, "content", fix.file_content)
           /\ pc' = "loop"
           /\ trace' = Append(trace, Event("arb_source", "FIX"))
           /\ UNCHANGED <<current_testcase, exit_at>>
      [] fix.decision = VETO ->
           /\ current_code' = SetItem(current_code, "content", fix.file_content)
           /\ pc' = "loop"
           /\ trace' = Append(trace, Event("arb_source", "VETO"))
           /\ UNCHANGED <<current_testcase, exit_at>>
      [] OTHER ->
           /\ pc' = "end"
           /\ exit_at' = "unknown_source"
           /\ trace' = Append(trace, Event("arb_source", "UNKNOWN"))
           /\ UNCHANGED <<current_code, current_testcase>>

\* apply_source_decision with the fix written to the test (the assignment of line 818)
apply_source_decision_PatchesTest(fix) ==
    CASE fix.decision = FIX ->
           /\ current_testcase' = SetItem(current_testcase, "content", fix.file_content)
           /\ pc' = "loop"
           /\ trace' = Append(trace, Event("arb_source", "FIX"))
           /\ UNCHANGED <<current_code, exit_at>>
      [] fix.decision = VETO ->
           /\ pc' = "loop"
           /\ trace' = Append(trace, Event("arb_source", "VETO"))
           /\ UNCHANGED <<current_code, current_testcase, exit_at>>
      [] OTHER ->
           /\ pc' = "end"
           /\ exit_at' = "unknown_source"
           /\ trace' = Append(trace, Event("arb_source", "UNKNOWN"))
           /\ UNCHANGED <<current_code, current_testcase>>

\* apply_source_decision with the VETO branch leaving the loop
apply_source_decision_VetoStops(fix) ==
    CASE fix.decision = FIX ->
           /\ current_code' = SetItem(current_code, "content", fix.file_content)
           /\ pc' = "loop"
           /\ trace' = Append(trace, Event("arb_source", "FIX"))
           /\ UNCHANGED <<current_testcase, exit_at>>
      [] fix.decision = VETO ->
           /\ pc' = "end"
           /\ exit_at' = "max_loops"
           /\ trace' = Append(trace, Event("arb_source", "VETO"))
           /\ UNCHANGED <<current_code, current_testcase>>
      [] OTHER ->
           /\ pc' = "end"
           /\ exit_at' = "unknown_source"
           /\ trace' = Append(trace, Event("arb_source", "UNKNOWN"))
           /\ UNCHANGED <<current_code, current_testcase>>

\* apply_source_decision with the FIX branch building a new dict around the content
apply_source_decision_ReplacesDict(fix) ==
    CASE fix.decision = FIX ->
           /\ current_code' = [content |-> fix.file_content]
           /\ pc' = "loop"
           /\ trace' = Append(trace, Event("arb_source", "FIX"))
           /\ UNCHANGED <<current_testcase, exit_at>>
      [] fix.decision = VETO ->
           /\ pc' = "loop"
           /\ trace' = Append(trace, Event("arb_source", "VETO"))
           /\ UNCHANGED <<current_code, current_testcase, exit_at>>
      [] OTHER ->
           /\ pc' = "end"
           /\ exit_at' = "unknown_source"
           /\ trace' = Append(trace, Event("arb_source", "UNKNOWN"))
           /\ UNCHANGED <<current_code, current_testcase>>

\* lines 808-821: the branch on the SOURCE debug agent's decision
apply_source_decision(fix) ==
    CASE fix.decision = FIX ->
           /\ current_code' = SetItem(current_code, "content", fix.file_content)
           /\ pc' = "loop"
           /\ trace' = Append(trace, Event("arb_source", "FIX"))
           /\ UNCHANGED <<current_testcase, exit_at>>
      [] fix.decision = VETO ->
           /\ pc' = "loop"
           /\ trace' = Append(trace, Event("arb_source", "VETO"))
           /\ UNCHANGED <<current_code, current_testcase, exit_at>>
      [] OTHER ->
           /\ pc' = "end"
           /\ exit_at' = "unknown_source"
           /\ trace' = Append(trace, Event("arb_source", "UNKNOWN"))
           /\ UNCHANGED <<current_code, current_testcase>>

\* lines 794-821: the SOURCE debug agent: call_llm, cleaner_debug_source, the branch
ArbitrateSource ==
    /\ pc = "arb_source"
    /\ \/ \E cleaned_data \in DebugResponses :
            /\ calls' \in call_llm_calls(cleaned_data = NoResponse)
            /\ debug_response' = cleaned_data
            /\ IF cleaner_debug_raises(cleaned_data)
               THEN /\ pc' = "raised"
                    /\ trace' = Append(trace, Event("arb_source", "raise"))
                    /\ UNCHANGED <<debug_fix, current_code, current_testcase, exit_at>>
               ELSE /\ debug_fix' = cleaner_debug_source(cleaned_data)
                    /\ apply_source_decision(cleaner_debug_source(cleaned_data))
       \/ /\ pc' = "exited"
          /\ trace' = Append(trace, Event("arb_source", "exit"))
          /\ UNCHANGED <<calls, debug_response, debug_fix, current_code,
                         current_testcase, exit_at>>
    /\ UNCHANGED <<xvars, nvars, bvars, max_loops, loop_count, final_success, is_pass,
                   error_log, report, generated, executed>>

\* lines 826-868: write the output files and return the statistics
\* (KeyError on a missing key, TypeError on f.write(None))
finish_raises(code) ==
    \/ "filename" \notin DOMAIN code
    \/ "packages" \notin DOMAIN code
    \/ code["content"] = None

\* Finish reporting loop_count itself as the number of loops
Finish_CountsIterations ==
    /\ pc = "end"
    /\ IF finish_raises(current_code)
       THEN pc' = "raised" /\ UNCHANGED report
       ELSE /\ pc' = "done"
            /\ report' = [tokens |-> 0,
                          loops |-> loop_count,
                          calls |-> calls,
                          is_pass |-> final_success,
                          code |-> current_code,
                          test |-> current_testcase]
    /\ UNCHANGED <<xvars, nvars, bvars, max_loops, loop_count, final_success, current_code, current_testcase,
                   is_pass, error_log, debug_response, debug_fix, calls, exit_at,
                   generated, executed, trace>>

\* Finish returning the artifacts as they were generated
Finish_ReturnsGenerated ==
    /\ pc = "end"
    /\ IF finish_raises(current_code)
       THEN pc' = "raised" /\ UNCHANGED report
       ELSE /\ pc' = "done"
            /\ report' = [tokens |-> 0,
                          loops |-> loop_count + (IF final_success THEN 0 ELSE 1),
                          calls |-> calls,
                          is_pass |-> final_success,
                          code |-> generated.code,
                          test |-> generated.test]
    /\ UNCHANGED <<xvars, nvars, bvars, max_loops, loop_count, final_success, current_code, current_testcase,
                   is_pass, error_log, debug_response, debug_fix, calls, exit_at,
                   generated, executed, trace>>

Finish ==
    /\ pc = "end"
    /\ IF finish_raises(current_code)
       THEN pc' = "raised" /\ UNCHANGED report
       ELSE /\ pc' = "done"
            /\ report' = [tokens |-> 0,
                          loops |-> loop_count + (IF final_success THEN 0 ELSE 1),
                          calls |-> calls,
                          is_pass |-> final_success,
                          code |-> current_code,
                          test |-> current_testcase]
    /\ UNCHANGED <<xvars, nvars, bvars, max_loops, loop_count, final_success, current_code, current_testcase,
                   is_pass, error_log, debug_response, debug_fix, calls, exit_at,
                   generated, executed, trace>>

Next ==
    \/ PMAgent
    \/ InitialCoder
    \/ TestcaseAgent
    \/ LoopTop
    \/ Execute
    \/ ArbitrateTest
    \/ ReExecute
    \/ ArbitrateSource
    \/ Finish

Spec == Init /\ [][Next]_vars

(***************************************************************************)
(* The extractors applied to an answer                                     *)
(***************************************************************************)
ExtractInit ==
    /\ RunInit
    /\ max_loops = 0
    /\ xpc = "input"
    /\ xtext \in Answers
    /\ xschema \in Schemas
    /\ xresult = NoneObj
    /\ xfields = EmptyDict
    /\ xscraped = NoneObj
    /\ NormalizeIdle
    /\ BenchmarkIdle

\* cleaned_data = parse_markdown_with_schema(llm_output, schema)
Extract ==
    /\ xpc = "input"
    /\ xresult' = parse_markdown_with_schema(xtext, xschema)
    /\ xpc' = "parsed"
    /\ UNCHANGED <<run_vars, nvars, bvars, xtext, xschema, xfields, xscraped>>

\* extract_json_regex(text, schema) on the same answer
Scrape ==
    /\ xpc = "parsed"
    /\ \E s \in RegexSchemas :
          /\ xfields' = s
          /\ xscraped' = extract_json_regex(xtext, s)
    /\ xpc' = "scraped"
    /\ UNCHANGED <<run_vars, nvars, bvars, xtext, xschema, xresult>>

ExtractNext ==
    \/ Extract
    \/ Scrape

ExtractSpec == ExtractInit /\ [][ExtractNext]_vars

(***************************************************************************)
(* remove_trailing_slash applied to a content, and to its own result       *)
(***************************************************************************)
MaxContentLen == 5

\* the characters the contents are written with: a letter, a blank, and the
\* characters of the two artifacts
ContentChars == {"x", " ", "/", "\\", "n"}

Contents == UNION {[1..n -> ContentChars] : n \in 0..MaxContentLen}

NormalizeInit ==
    /\ RunInit
    /\ max_loops = 0
    /\ xpc = "idle"
    /\ xtext = <<>>
    /\ xschema = coder_schema
    /\ xresult = NoneObj
    /\ xfields = EmptyDict
    /\ xscraped = NoneObj
    /\ BenchmarkIdle
    /\ npc = "input"
    /\ raw_content \in Contents
    /\ cleaned = <<>>
    /\ recleaned = <<>>

\* content = remove_trailing_slash(content)
Normalize ==
    /\ npc = "input"
    /\ cleaned' = remove_trailing_slash(raw_content)
    /\ npc' = "once"
    /\ UNCHANGED <<run_vars, xvars, bvars, raw_content, recleaned>>

\* remove_trailing_slash on what the first call returned
NormalizeAgain ==
    /\ npc = "once"
    /\ recleaned' = remove_trailing_slash(cleaned)
    /\ npc' = "twice"
    /\ UNCHANGED <<run_vars, xvars, bvars, raw_content, cleaned>>

NormalizeNext ==
    \/ Normalize
    \/ NormalizeAgain

NormalizeSpec == NormalizeInit /\ [][NormalizeNext]_vars

(***************************************************************************)
(* benchmark.py: run_humaneval_benchmark                                   *)
(***************************************************************************)
MaxTasks == 3
MaxLimit == 4

\* the datasets: task ids 1..n in order
Datasets == {[k \in 1..n |-> k] : n \in 0..MaxTasks}

\* range(min(limit, len(dataset))): the number of tasks the for loop takes
TaskCount == IF Min({limit, Len(dataset)}) < 0 THEN 0 ELSE Min({limit, Len(dataset)})

\* what run_greycells(prompt, max_loop_count=3, return_code=True) can do: return a
\* report with is_pass True or False, raise an exception, or leave through sys.exit(1)
RunOutcomes == {"passed", "not_passed", "raise", "exit"}

\* what verify_with_canonical_test can do: return is_pass of execute_code, or raise
VerifyOutcomes == {"passed", "not_passed", "raise"}

BenchmarkInit ==
    /\ RunInit
    /\ max_loops = 0
    /\ xpc = "idle"
    /\ xtext = <<>>
    /\ xschema = coder_schema
    /\ xresult = NoneObj
    /\ xfields = EmptyDict
    /\ xscraped = NoneObj
    /\ NormalizeIdle
    /\ bpc = "loop"
    /\ dataset \in Datasets
    /\ limit \in (-1)..MaxLimit
    /\ task_i = 0
    /\ results = <<>>
    /\ total = 0
    /\ attempted = <<>>

\* lines 37-84: one pass of the for loop body
BenchmarkTask ==
    /\ bpc = "loop"
    /\ task_i < TaskCount
    /\ LET task_id == dataset[task_i + 1]
       IN  /\ attempted' = Append(attempted, task_id)
           /\ task_i' = task_i + 1
           /\ \E outcome \in RunOutcomes :
                 CASE outcome = "exit" ->
                        /\ bpc' = "exited"
                        /\ UNCHANGED results
                   [] outcome = "raise" ->
                        /\ bpc' = "loop"
                        /\ results' = Append(results, [task_id |-> task_id,
                                                       internal_pass |-> FALSE,
                                                       external_pass |-> FALSE,
                                                       error |-> "Exception"])
                   [] outcome = "not_passed" ->
                        /\ bpc' = "report"
                        /\ UNCHANGED results
                   [] outcome = "passed" ->
                        /\ bpc' = "loop"
                        /\ \E verdict \in VerifyOutcomes :
                              results' = Append(results,
                                  IF verdict = "raise"
                                  THEN [task_id |-> task_id,
                                        internal_pass |-> FALSE,
                                        external_pass |-> FALSE,
                                        error |-> "Exception"]
                                  ELSE [task_id |-> task_id,
                                        internal_pass |-> TRUE,
                                        external_pass |-> (verdict = "passed")])
    /\ UNCHANGED <<run_vars, xvars, nvars, dataset, limit, total>>

\* lines 86-94: the final report, after the loop has ended or was left by break
BenchmarkReport ==
    /\ \/ bpc = "report"
       \/ bpc = "loop" /\ task_i >= TaskCount
    /\ total' = Len(results)
    /\ bpc' = "done"
    /\ UNCHANGED <<run_vars, xvars, nvars, dataset, limit, task_i, results, attempted>>

BenchmarkNext ==
    \/ BenchmarkTask
    \/ BenchmarkReport

BenchmarkSpec == BenchmarkInit /\ [][BenchmarkNext]_vars

\* the terminal-state label of the run, read off the statement that left the loop
Outcome ==
    IF pc \notin {"end", "done"} THEN "RUNNING"
    ELSE IF final_success THEN "SUCCESS"
    ELSE IF exit_at \in {"unknown_test", "unknown_source"} THEN "ABORTED"
    ELSE "EXHAUSTED"

TypeOK ==
    /\ pc \in {"pm", "coder", "testcase", "loop", "execute", "arb_test", "reexecute",
               "arb_source", "end", "done", "raised", "exited"}
    /\ max_loops \in (-1)..MaxLoops
    /\ loop_count \in 0..MaxLoops
    /\ final_success \in BOOLEAN
    /\ is_pass \in BOOLEAN
    /\ calls \in Nat
    /\ exit_at \in {"none", "pass", "max_loops", "unknown_test", "repass",
                    "unknown_source", "while"}
    /\ debug_response \in DebugResponses

(***************************************************************************)
(* Properties of the repair loop                                           *)
(***************************************************************************)
Last(q) == q[Len(q)]

IsExec(e, out) == e.call = "exec" /\ e.out = out
IsArb(e, call, out) == e.call = call /\ e.out = out

\* some execution of the run has reported passed
PassReported == \E i \in DOMAIN trace : IsExec(trace[i], "pass")

\* every execution so far reported a failure and every verdict so far was REMAIN / VETO
AllFailAllNoop ==
    \A i \in DOMAIN trace :
        \/ IsExec(trace[i], "fail")
        \/ IsArb(trace[i], "arb_test", "REMAIN")
        \/ IsArb(trace[i], "arb_source", "VETO")

\* the decisions main() acts on for each debug agent
Allowed(call) == IF call = "arb_test" THEN {FIX, REMAIN} ELSE {FIX, VETO}

\* the latest call was a debug agent whose answer the cleaner returned
VerdictReturned ==
    /\ trace # <<>>
    /\ Last(trace).call \in {"arb_test", "arb_source"}
    /\ Last(trace).out \notin {"raise", "exit"}

\* ... and the decision it returned is none of the subject's allowed decisions
UnknownVerdict == VerdictReturned /\ debug_fix.decision \notin Allowed(Last(trace).call)

\* C1: once an execution (the iteration's first or the re-execution) has reported
\* passed, the run is in SUCCESS at once (final_success set, loop left by the break
\* after that execution) and from then on no call is made, no artifact is patched and
\* the iteration counter stays, whatever budget remains.
C1_PassEndsRun ==
    [][ /\ PassReported' =>
              /\ final_success'
              /\ pc' \in {"end", "done", "raised"}
              /\ exit_at' \in {"pass", "repass"}
              /\ IsExec(Last(trace'), "pass")
        /\ PassReported =>
              UNCHANGED <<trace, calls, current_code, current_testcase, loop_count,
                          final_success, exit_at>> ]_vars

C1_Witness ==
    /\ pc = "done"
    /\ exit_at = "repass"
    /\ PassReported
    /\ loop_count < max_loops

\* C2: for every budget N >= 1, when the first execution reports passed the run ends
\* SUCCESS with loop_count = 1, one execution and no call of a debug agent.
C2_FirstPassOneIteration ==
    (max_loops >= 1 /\ trace # <<>> /\ IsExec(trace[1], "pass")) =>
        /\ Outcome = "SUCCESS"
        /\ loop_count = 1
        /\ Len(Executions) = 1
        /\ Len(Arbitrations) = 0
        /\ calls <= 3

C2_Witness ==
    /\ pc = "done"
    /\ max_loops = MaxLoops
    /\ trace # <<>>
    /\ IsExec(trace[1], "pass")

\* C3: for every budget N >= 1, a run in which every execution failed and every
\* verdict was REMAIN / VETO never stops abnormally, and when it has left the loop it
\* is EXHAUSTED after exactly N iterations with both artifacts as they were right
\* after the test was generated.
C3_AllNoopExhausts ==
    (max_loops >= 1 /\ generated # NoneObj /\ AllFailAllNoop) =>
        /\ pc \notin {"raised", "exited"}
        /\ loop_count <= max_loops
        /\ pc \in {"end", "done"} =>
              /\ Outcome = "EXHAUSTED"
              /\ exit_at = "max_loops"
              /\ loop_count = max_loops
              /\ Len(Executions) = max_loops
              /\ current_code = generated.code
              /\ current_testcase = generated.test

C3_Witness ==
    /\ pc = "done"
    /\ max_loops = MaxLoops
    /\ AllFailAllNoop
    /\ Len(Arbitrations) = 2 * (MaxLoops - 1)

\* C4: when a debug agent's decision is none of the decisions allowed for its subject
\* (UNKNOWN), the loop is left at once as ABORTED: that step changes neither artifact,
\* and afterwards no execution or debug agent call is made and no artifact changes.
C4_UnknownAborts ==
    [][ /\ (UnknownVerdict' /\ trace' # trace) =>
              /\ pc' = "end"
              /\ Outcome' = "ABORTED"
              /\ UNCHANGED <<current_code, current_testcase>>
        /\ UnknownVerdict =>
              /\ UNCHANGED <<trace, calls, current_code, current_testcase, exit_at,
                             final_success>>
              /\ pc' \in {"done", "raised"} ]_vars

C4_Witness ==
    /\ pc = "done"
    /\ UnknownVerdict
    /\ Last(trace).call = "arb_source"
    /\ loop_count < max_loops
    /\ Outcome = "ABORTED"

\* C5: a decision text (what stands under the Decision header) that, after strip / upper / removal of the emphasis markers, is
\* not exactly one of the subject's allowed decisions is an UNKNOWN verdict and aborts
\* the run; it is never acted on as FIX, REMAIN or VETO.
C5_ExactTokenOnly ==
    (VerdictReturned
        /\ clean_decision(section_body(debug_response.decision)) \notin Allowed(Last(trace).call)) =>
        /\ UnknownVerdict
        /\ exit_at \in {"unknown_test", "unknown_source"}
        /\ pc \in {"end", "done", "raised"}

\* C6: in every iteration the TESTCASE debug agent is consulted before the SOURCE debug
\* agent: the SOURCE agent is called (or about to be called) only after the TESTCASE
\* agent answered FIX or REMAIN earlier in the same iteration.
TestArbitratedIn(loop, upto) ==
    \E j \in 1..upto :
        /\ trace[j].call = "arb_test"
        /\ trace[j].loop = loop
        /\ trace[j].out \in {"FIX", "REMAIN"}

C6_TestBeforeSource ==
    /\ \A i \in DOMAIN trace :
          trace[i].call = "arb_source" => TestArbitratedIn(trace[i].loop, i - 1)
    /\ pc = "arb_source" => TestArbitratedIn(loop_count, Len(trace))

C6_Witness ==
    /\ pc = "done"
    /\ \E i \in DOMAIN trace :
          /\ i >= 3
          /\ trace[i].call = "arb_source"
          /\ IsArb(trace[i - 2], "arb_test", "FIX")
          /\ trace[i - 2].loop = trace[i].loop

\* C7: after the TESTCASE agent answers FIX the test content is the returned content
\* and the next call is an execution in the same iteration, which comes before any
\* call of the SOURCE agent; after it answers REMAIN the next call is the SOURCE agent
\* in the same iteration, with no execution in between.
C7_FixReExecutes ==
    \A i \in DOMAIN trace :
        /\ IsArb(trace[i], "arb_test", "FIX") =>
              /\ i = Len(trace) =>
                    /\ pc = "reexecute"
                    /\ loop_count = trace[i].loop
                    /\ current_testcase["content"] = debug_fix.file_content
              /\ i < Len(trace) =>
                    /\ trace[i + 1].call = "exec"
                    /\ trace[i + 1].loop = trace[i].loop
              /\ i + 1 < Len(trace) =>
                    /\ IsExec(trace[i + 1], "fail")
                    /\ trace[i + 2].call = "arb_source"
                    /\ trace[i + 2].loop = trace[i].loop
        /\ IsArb(trace[i], "arb_test", "REMAIN") =>
              /\ i = Len(trace) => (pc = "arb_source" /\ loop_count = trace[i].loop)
              /\ i < Len(trace) =>
                    /\ trace[i + 1].call = "arb_source"
                    /\ trace[i + 1].loop = trace[i].loop

C7_Witness ==
    /\ pc = "done"
    /\ Len(trace) >= 7
    /\ IsArb(trace[2], "arb_test", "FIX")
    /\ IsExec(trace[3], "fail")
    /\ trace[4].call = "arb_source"
    /\ IsArb(trace[6], "arb_test", "REMAIN")
    /\ trace[7].call = "arb_source"

\* C8: for every budget N >= 1, first execution failed, TESTCASE agent answered FIX,
\* re-execution passed: the run ends SUCCESS in iteration 1 and the SOURCE agent is
\* never called.
C8_TestFixThenPass ==
    ( /\ max_loops >= 1
      /\ Len(trace) >= 3
      /\ IsExec(trace[1], "fail")
      /\ IsArb(trace[2], "arb_test", "FIX")
      /\ IsExec(trace[3], "pass") ) =>
        /\ Outcome = "SUCCESS"
        /\ exit_at = "repass"
        /\ loop_count = 1
        /\ Len(trace) = 3
        /\ \A i \in DOMAIN trace : trace[i].call # "arb_source"
        /\ pc # "arb_source"

C8_Witness ==
    /\ pc = "done"
    /\ Len(trace) = 3
    /\ IsArb(trace[2], "arb_test", "FIX")
    /\ IsExec(trace[3], "pass")
    /\ report.is_pass

\* the step is an answered call of the given debug agent
VerdictStep(call) ==
    /\ trace' # trace
    /\ Last(trace').call = call
    /\ Last(trace').out \notin {"raise", "exit"}

HasRevision(artifact) == "revision" \in DOMAIN artifact

Incremented(before, after) ==
    /\ HasRevision(before)
    /\ HasRevision(after)
    /\ after["revision"] = before["revision"] + 1

C10_SourceFixThenPass ==
    ( /\ max_loops >= 2
      /\ Len(trace) >= 4
      /\ IsExec(trace[1], "fail")
      /\ IsArb(trace[2], "arb_test", "REMAIN")
      /\ IsArb(trace[3], "arb_source", "FIX")
      /\ debug_fix.file_content # None
      /\ IsExec(trace[4], "pass") ) =>
        /\ Outcome = "SUCCESS"
        /\ loop_count = 2
        /\ trace[4].loop = 2
        /\ Len(trace) = 4
        /\ current_code = SetItem(generated.code, "content", debug_fix.file_content)
        /\ current_testcase = generated.test

C10_Witness ==
    /\ pc = "done"
    /\ max_loops = MaxLoops
    /\ Len(trace) = 4
    /\ IsArb(trace[2], "arb_test", "REMAIN")
    /\ IsArb(trace[3], "arb_source", "FIX")
    /\ IsExec(trace[4], "pass")
    /\ current_code["content"] = "fix_a"
    /\ report.code["content"] = "fix_a"

\* the artifacts as main() holds them now
Artifacts == [code |-> current_code, test |-> current_testcase]

\* C11 as stated: EXHAUSTED is reached only with loop_count = N and a failed most recent
\* execution; the final output is the artifacts of that execution, returned in a report
\* with the failure flag.
C11_ExhaustedAfterFailedExecute ==
    Outcome = "EXHAUSTED" =>
        /\ loop_count = max_loops
        /\ trace # <<>>
        /\ IsExec(Last(trace), "fail")
        /\ executed = Artifacts
        /\ pc = "done" => (~report.is_pass /\ report.code = executed.code
                                           /\ report.test = executed.test)

\* the number of iterations a budget of max_loops allows: none for a negative budget
IterationBudget == IF max_loops < 0 THEN 0 ELSE max_loops

\* C11 (amended): EXHAUSTED is reached only with loop_count = max(N, 0).  For N >= 1 the loop
\* was left by the budget test right after a failed execution of iteration N, and the
\* artifacts are the ones that execution ran; for N <= 0 no execution was made at all
\* and the artifacts are the generated ones.  The loop is left towards the final report
\* (no exception is raised by the exhaustion), which carries is_pass = False and the
\* artifacts.
C11_ExhaustedOnlyAtBudget ==
    Outcome = "EXHAUSTED" =>
        /\ loop_count = IterationBudget
        /\ ~final_success
        /\ max_loops >= 1 =>
              /\ exit_at = "max_loops"
              /\ trace # <<>>
              /\ IsExec(Last(trace), "fail")
              /\ Last(trace).loop = max_loops
              /\ ~is_pass
              /\ executed = Artifacts
        /\ max_loops <= 0 =>
              /\ exit_at = "while"
              /\ trace = <<>>
              /\ Artifacts = generated
        /\ pc = "done" =>
              /\ ~report.is_pass
              /\ report.code = current_code
              /\ report.test = current_testcase

C11_Witness ==
    /\ pc = "done"
    /\ Outcome = "EXHAUSTED"
    /\ max_loops = MaxLoops
    /\ current_code # generated.code
    /\ current_testcase # generated.test
    /\ report.code = executed.code

\* the terminal state a reader can take from the returned report: a label field if
\* there is one, otherwise the is_pass flag (True: passed, False: budget used up)
LabelOf(r) ==
    IF "outcome" \in DOMAIN r THEN r["outcome"]
    ELSE IF r.is_pass THEN "SUCCESS" ELSE "EXHAUSTED"

\* C12: the report main() returns tells SUCCESS, EXHAUSTED and ABORTED apart (a run
\* stopped by an UNKNOWN decision is reported differently from one that used up its
\* budget) and carries the last artifacts.
C12_ReportNamesOutcome ==
    pc = "done" =>
        /\ LabelOf(report) = Outcome
        /\ report.code = current_code
        /\ report.test = current_testcase

\* the number of loop iterations that were started
IterationsStarted == IF trace = <<>> THEN 0 ELSE Last(trace).loop

\* C13 as stated: the iteration count of the report is the number of iterations that
\* were started, in every terminal outcome (N on EXHAUSTED, k on SUCCESS in iteration k).
C13_ReportedLoopsAreIterations ==
    pc = "done" =>
        /\ report.loops = loop_count
        /\ report.loops = IterationsStarted

\* C13 (amended): the report's loops is the number of iterations started when the run
\* ends SUCCESS (k in iteration k) and one more than that when it ends not passed:
\* max(N, 0) + 1 on EXHAUSTED, k + 1 when ABORTED in iteration k.
C13_ReportedLoops ==
    pc = "done" =>
        /\ loop_count = IterationsStarted
        /\ Outcome = "SUCCESS" => report.loops = IterationsStarted
        /\ Outcome = "EXHAUSTED" => report.loops = IterationBudget + 1
        /\ Outcome = "ABORTED" => report.loops = IterationsStarted + 1

C13_Witness ==
    /\ pc = "done"
    /\ Outcome = "EXHAUSTED"
    /\ max_loops = MaxLoops
    /\ IterationsStarted = MaxLoops
    /\ report.loops = MaxLoops + 1

\* C14: whatever sections a debug answer has, handling it raises no exception; an
\* answer whose decision cannot be read (no Decision section) ends the run ABORTED.
C14_UnreadableDecisionAborts ==
    ( /\ trace # <<>>
      /\ Last(trace).call \in {"arb_test", "arb_source"}
      /\ Last(trace).out # "exit" ) =>
        /\ Last(trace).out # "raise"
        /\ cleaner_debug_raises(debug_response) =>
              (pc \in {"end", "done"} /\ Outcome = "ABORTED")

\* an artifact with both of its required fields filled
IsComplete(artifact) ==
    /\ "filename" \in DOMAIN artifact /\ Truthy(artifact["filename"])
    /\ "content" \in DOMAIN artifact /\ Truthy(artifact["content"])

\* C19: a generated SOURCE or TEST whose content or filename is empty stops the
\* run at the generation step, before any execution; the run never enters the
\* loop with an empty artifact or with the default filename "test.py" put in
\* the place of a missing one (no test writer's answer names that file here).
C19_EmptyFieldIsParseFailure ==
    generated # NoneObj =>
        /\ IsComplete(generated.code)
        /\ IsComplete(generated.test)
        /\ generated.test["filename"] # "test.py"

\* C20: execute_code never lets an exception out; every execution the loop
\* asked for came back as a result that qa_judge read as pass or fail.
C20_GatewayNeverRaises ==
    \A k \in DOMAIN trace : trace[k].call = "exec" => trace[k].out # "raise"

(***************************************************************************)
(* Properties of the extractors                                            *)
(***************************************************************************)
\* the answer has been handed to parse_markdown_with_schema
Parsed == xpc \in {"parsed", "scraped"}

\* C15: whatever the answer, parse_markdown_with_schema and extract_json_regex
\* return without an exception, and the dict returned has an entry for every
\* field the schema declares.
C15_EveryFieldHasEntry ==
    /\ Parsed =>
          /\ "raised" \notin DOMAIN xresult
          /\ DOMAIN xresult = Keys(xschema)
          /\ \A k \in DOMAIN xresult : xresult[k] # JSONDecodeError
    /\ xpc = "scraped" => DOMAIN xscraped = DOMAIN xfields

\* a malformed answer: a Metadata block that is not JSON, no Content section
C15_Witness ==
    /\ xpc = "scraped"
    /\ xschema = coder_schema
    /\ xresult["metadata"] = Dict(EmptyDict)
    /\ xresult["content"] = NoneObj
    /\ xscraped[<<"f", "i", "l", "e", "n", "a", "m", "e">>] = Str(<<>>)

\* the type of the field a target key belongs to
TypeOf(schema, k) == schema[CHOOSE h \in DOMAIN schema : schema[h][1] = k][2]

\* C16: every field of the returned record holds a value of its kind, the empty
\* one when nothing was found for it: a str for a text or code field, a dict for
\* a json field, never an absent value.
C16_AbsentFieldIsEmptyValue ==
    Parsed =>
        \A k \in DOMAIN xresult :
            IF TypeOf(xschema, k) = "json"
            THEN "dict" \in DOMAIN xresult[k]
            ELSE "str" \in DOMAIN xresult[k]

\* the whole answer is one fenced block
is_fenced(tokens) == Len(tokens) = 1 /\ tokens[1].type = "fence"

\* the headers of the schema that head a section of the text
HeadersIn(text, schema) ==
    LET tokens == md_parse(text)
    IN  {t \in DOMAIN normalized_schema(schema) :
            \E i \in 1..(Len(tokens) - 1) :
                /\ tokens[i].type = "heading_open"
                /\ tokens[i + 1].type = "inline"
                /\ lower(strip(tokens[i + 1].content)) = t}

\* C17: the record extracted from a wrapped answer (one fenced block whose
\* interior has the sections the schema declares) is the record extracted from
\* its interior, and the record extracted from an answer that is not one fenced
\* block is the plain section scan of it.
C17_PeelingIdempotent ==
    Parsed =>
        LET tokens == md_parse(xtext)
        IN  IF is_fenced(tokens)
            THEN HeadersIn(tokens[1].content, xschema) = DOMAIN normalized_schema(xschema)
                    => xresult = parse_markdown_with_schema(tokens[1].content, xschema)
            ELSE xresult = section_scan(tokens, xschema)

\* the section scan found a value for every field
Complete(record) == \A k \in DOMAIN record : record[k] # NoneObj

\* C18: when the section scan of the answer finds every field, the record
\* returned is exactly what the section scan found; no later step replaces or
\* changes a value.
C18_CompleteScanIsResult ==
    (Parsed /\ Complete(section_scan(md_parse(xtext), xschema))) =>
        xresult = section_scan(md_parse(xtext), xschema)

C18_Witness ==
    /\ xpc = "parsed"
    /\ xschema = coder_schema
    /\ Complete(xresult)
    /\ xresult["content"] = Str(<<"x", " ", "=", " ", "1">>)
    /\ xresult["metadata"] = Dict(EmptyDict)

(***************************************************************************)
(* Termination and order of the repair loop                                *)
(***************************************************************************)
\* main() is one sequential thread: whenever it has a next statement, it executes it
FairSpec == Init /\ [][Next]_vars /\ WF_vars(Next)

\* an external call did not return: call_llm left through sys.exit(1), or the sandbox
\* (session, pip install, files.write) failed on arguments execute_code could use
ExternalCallFailed ==
    \/ pc = "exited"
    \/ /\ pc = "raised"
       /\ trace # <<>>
       /\ IsExec(Last(trace), "raise")
       /\ ~execute_code_raises(executed.code, executed.test)

\* C21: provided every external call (call_llm, the sandbox) returns, every run reaches
\* a terminal state (SUCCESS, EXHAUSTED or ABORTED), and it never starts more than N
\* loop iterations, whatever the executions report and the debug agents decide.
C21_RunTerminates ==
    /\ [](loop_count <= max_loops)
    /\ <>(Outcome # "RUNNING" \/ ExternalCallFailed)

\* the latest call was the execution that opens an iteration, and it reported a failure
FirstExecuteFailed ==
    /\ trace # <<>>
    /\ IsExec(Last(trace), "fail")
    /\ Len(trace) > 1 => trace[Len(trace) - 1].call # "arb_test"

\* C22 as stated: whenever the execution that opens an iteration has failed, the
\* TESTCASE debug agent is the next thing the loop does, with the log of that failure.
C22_FailedExecuteEntersTestArbitration ==
    FirstExecuteFailed =>
        /\ pc = "arb_test"
        /\ ~is_pass
        /\ error_log = Len(Executions)

\* C22 (amended): when the execution that opens an iteration has failed and the
\* iteration is not the last one (loop_count < N), the TESTCASE debug agent is the next
\* thing the loop does, with the log of that failure; in iteration N the loop is left
\* by the budget break instead, and no debug agent is called in that iteration.
C22_FailedExecuteBeforeBudget ==
    FirstExecuteFailed =>
        /\ Last(trace).loop = loop_count
        /\ ~is_pass
        /\ error_log = Len(Executions)
        /\ loop_count < max_loops => pc = "arb_test"
        /\ loop_count >= max_loops =>
              /\ loop_count = max_loops
              /\ exit_at = "max_loops"
              /\ pc \in {"end", "done", "raised"}

C22_Witness ==
    /\ FirstExecuteFailed
    /\ pc = "arb_test"
    /\ loop_count = 2
    /\ max_loops = MaxLoops

\* the latest call was the SOURCE debug agent, and its decision was FIX or VETO
SourceVerdictPending ==
    /\ trace # <<>>
    /\ Last(trace).call = "arb_source"
    /\ Last(trace).out \in {"FIX", "VETO"}

\* C23: after a SOURCE decision of FIX or VETO the run is on its way to the execution
\* of the next iteration and nowhere else: budget is left, the source is the patched
\* one after FIX and the executed one after VETO, the test is the executed one, and the
\* next call made is execute_code, in iteration + 1, on exactly these artifacts.
C23_SourceVerdictContinues ==
    [][ /\ SourceVerdictPending' =>
              /\ pc' \in {"loop", "execute"}
              /\ pc' = "loop" => (loop_count' = Last(trace').loop /\ loop_count' < max_loops)
              /\ pc' = "execute" => loop_count' = Last(trace').loop + 1
              /\ current_testcase' = executed'.test
              /\ Last(trace').out = "FIX" =>
                    current_code' = SetItem(executed'.code, "content", debug_fix'.file_content)
              /\ Last(trace').out = "VETO" => current_code' = executed'.code
        /\ (SourceVerdictPending /\ trace' # trace) =>
              /\ Last(trace').call = "exec"
              /\ Last(trace').loop = Last(trace).loop + 1
              /\ executed' = Artifacts
      ]_vars

C23_Witness ==
    /\ \E i \in 1..(Len(trace) - 1) :
          IsArb(trace[i], "arb_source", "FIX") /\ trace[i + 1].call = "exec"
    /\ \E i \in 1..(Len(trace) - 1) :
          IsArb(trace[i], "arb_source", "VETO") /\ trace[i + 1].call = "exec"

\* the executions made before the i-th call of the loop
ExecutionsBefore(i) == SelectSeq(SubSeq(trace, 1, i - 1), LAMBDA e : e.call = "exec")

\* C24: the SOURCE debug agent is called only while the most recent execution is a
\* failed one, and the log in its prompt is the log of that execution: of the
\* re-execution when the TESTCASE agent fixed the test in this iteration, of the
\* iteration's first execution when it decided REMAIN.
C24_SourceArbitrationSeesLatestFailure ==
    /\ pc = "arb_source" =>
          /\ ~is_pass
          /\ Executions # <<>>
          /\ IsExec(Last(Executions), "fail")
          /\ error_log = Len(Executions)
    /\ \A i \in DOMAIN trace :
          trace[i].call = "arb_source" =>
              /\ i > 2
              /\ ExecutionsBefore(i) # <<>>
              /\ IsExec(Last(ExecutionsBefore(i)), "fail")
              /\ Last(ExecutionsBefore(i)).loop = trace[i].loop
              /\ trace[i].log = Len(ExecutionsBefore(i))
              /\ IF trace[i - 1].call = "exec"
                 THEN /\ IsExec(trace[i - 1], "fail")
                      /\ IsArb(trace[i - 2], "arb_test", "FIX")
                      /\ trace[i].log = Len(ExecutionsBefore(i - 1)) + 1
                 ELSE /\ IsArb(trace[i - 1], "arb_test", "REMAIN")
                      /\ IsExec(trace[i - 2], "fail")
                      /\ trace[i].log = Len(ExecutionsBefore(i - 1))

C24_Witness ==
    /\ \E i \in DOMAIN trace :
          /\ trace[i].call = "arb_source"
          /\ IsArb(trace[i - 2], "arb_test", "FIX")
          /\ trace[i].loop = 2
    /\ \E i \in DOMAIN trace :
          /\ trace[i].call = "arb_source"
          /\ IsArb(trace[i - 1], "arb_test", "REMAIN")

\* everything of an artifact but its content: the filename, the packages and whatever
\* other keys the metadata block brought
Metadata_of(artifact) ==
    [k \in DOMAIN artifact \ {"content"} |-> artifact[k]]

\* C25: once the test has been generated, a step changes current_code only when the
\* SOURCE debug agent decided FIX and current_testcase only when the TESTCASE debug
\* agent decided FIX; the other artifact is untouched by that step, and no step changes
\* anything of an artifact but its content (filename and packages stay).
C25_OnlyFixChangesArtifacts ==
    [][ generated # NoneObj =>
          /\ current_code' # current_code =>
                /\ trace' = Append(trace, Event("arb_source", "FIX"))
                /\ current_code' = SetItem(current_code, "content", debug_fix'.file_content)
                /\ current_testcase' = current_testcase
          /\ current_testcase' # current_testcase =>
                /\ trace' = Append(trace, Event("arb_test", "FIX"))
                /\ current_testcase' = SetItem(current_testcase, "content", debug_fix'.file_content)
                /\ current_code' = current_code
          /\ Metadata_of(current_code') = Metadata_of(current_code)
          /\ Metadata_of(current_testcase') = Metadata_of(current_testcase)
      ]_vars

C25_Witness ==
    /\ generated # NoneObj
    /\ \E i \in DOMAIN trace : IsArb(trace[i], "arb_test", "FIX")
    /\ \E i \in DOMAIN trace : IsArb(trace[i], "arb_source", "FIX")
    /\ current_code.content # generated.code.content
    /\ current_testcase.content # generated.test.content
    /\ "filename" \in DOMAIN current_code
    /\ "packages" \in DOMAIN current_code
    /\ Metadata_of(current_code) = Metadata_of(generated.code)
    /\ Metadata_of(current_testcase) = Metadata_of(generated.test)

\* the headed-section answer that says what BareDocument says
HeadedDocument == <<"#", "#", " ", "C", "o", "n", "t", "e", "n", "t", "\n", Tick, Tick, Tick, "p", "y", "t", "h", "o", "n", "\n", "x", " ", "=", " ", "1", "\n", Tick, Tick, Tick, "\n">>

\* C26: an answer that is a bare JSON object of the schema's fields, in which the
\* section scan finds no section, is extracted through the next tiers (whole-text
\* parse, regex scrape) to the field values of the equivalent headed-section answer.
C26_BareDocumentIsExtracted ==
    (Parsed /\ xtext = BareDocument) =>
        /\ section_scan(md_parse(xtext), xschema) = [k \in Keys(xschema) |-> NoneObj]
        /\ HeadedDocument \in Documents
        /\ xresult = parse_markdown_with_schema(HeadedDocument, xschema)

\* the empty value of each type of the regex scrape
EmptyDefault(field_type) ==
    CASE field_type = "string" -> Str(<<>>)
      [] field_type = "list" -> List(<<>>)
      [] field_type = "bool" -> Bool(FALSE)

\* C27: the dict extract_json_regex returns has an entry for every field of the
\* schema; the entry of a field is what the scrape of the same text for that field
\* alone returns, and it is the empty value of the field's type ("", [], False) when
\* the text has no match for the field.
C27_ScrapePerField ==
    xpc = "scraped" =>
        /\ DOMAIN xscraped = DOMAIN xfields
        /\ \A f \in DOMAIN xfields :
              /\ xscraped[f] = extract_json_regex(xtext, f :> xfields[f])[f]
              /\ re_search(xfields[f], xtext, f) = NoMatch =>
                    xscraped[f] = EmptyDefault(xfields[f])

\* one field found and the other not, either way round
C27_Witness ==
    /\ xpc = "scraped"
    /\ xtext = BareVerdict
    /\ xscraped[<<"i", "s", "_", "p", "a", "s", "s">>] = Bool(TRUE)
    /\ xscraped[<<"f", "i", "l", "e", "n", "a", "m", "e">>] = Str(<<>>)

\* an answer with the Reasoning section only, and one with a section the schema does
\* not declare after it
ReasoningOnly == <<"#", "#", " ", "R", "e", "a", "s", "o", "n", "i", "n", "g", "\n", "w", "h", "y", "\n">>
ReasoningThenNotes == <<"#", "#", " ", "R", "e", "a", "s", "o", "n", "i", "n", "g", "\n", "w", "h", "y", "\n", "#", "#", " ", "N", "o", "t", "e", "s", "\n", "m", "o", "r", "e", "\n">>

\* C28: the value of a text field is the prose after its header: the header's title is
\* not part of it, and the prose under a following header that the schema does not
\* declare still is.
C28_TextFieldIsProseAfterHeading ==
    Parsed =>
        /\ xtext = ReasoningOnly => xresult["reasoning"] = Str(<<"w", "h", "y">>)
        /\ xtext = ReasoningThenNotes =>
              /\ "str" \in DOMAIN xresult["reasoning"]
              /\ ~Contains(xresult["reasoning"].str, Reasoning)
              /\ Contains(xresult["reasoning"].str, <<"m", "o", "r", "e">>)

\* an answer whose Content section holds two fenced blocks
TwoBlocks == <<"#", " ", "C", "O", "N", "T", "E", "N", "T", "\n", Tick, Tick, Tick, "\n", "y", " ", "=", " ", "2", "\n", Tick, Tick, Tick, "\n", Tick, Tick, Tick, "\n", "z", " ", "=", " ", "3", "\n", Tick, Tick, Tick, "\n">>

\* C29: the value of a code field is the content of the first fenced block after its
\* header, with or without a language tag; a second block under the same header does
\* not replace it.
C29_FirstFenceIsKept ==
    (Parsed /\ "content" \in DOMAIN xresult) =>
        /\ xtext = HeadedDocument => xresult["content"] = Str(<<"x", " ", "=", " ", "1">>)
        /\ xtext = TwoBlocks => xresult["content"] = Str(<<"y", " ", "=", " ", "2">>)

\* C30: after extraction the value of a json field is a dict, whatever the answer:
\* never None, and never the list or scalar a fenced block may hold.
C30_JsonFieldIsObject ==
    Parsed =>
        \A k \in DOMAIN xresult :
            TypeOf(xschema, k) = "json" =>
                /\ xresult[k] # NoneObj
                /\ "list" \notin DOMAIN xresult[k]
                /\ "dict" \in DOMAIN xresult[k]

\* C31: whether a wrapper is peeled is decided by the schema: an answer that is one
\* fenced block is extracted as its interior exactly when the interior has a header
\* the schema declares, whatever that header's name, and as itself otherwise.
C31_PeelingIsSchemaDriven ==
    (Parsed /\ is_fenced(md_parse(xtext))) =>
        LET inner_content == md_parse(xtext)[1].content
        IN  IF HeadersIn(inner_content, xschema) # {}
            THEN xresult = parse_markdown_with_schema(inner_content, xschema)
            ELSE xresult = section_scan(md_parse(xtext), xschema)

\* the str values of the extracted record
TextValues == {xresult[k].str : k \in {f \in DOMAIN xresult : "str" \in DOMAIN xresult[f]}}

\* C32: every text or code value of the extracted record is normalized: it neither
\* begins nor ends with whitespace, and it does not end with "/n" or backslash-n.
C32_ValuesAreNormalized ==
    Parsed =>
        \A value \in TextValues :
            /\ strip(value) = value
            /\ ~EndsWith(value, SlashN)
            /\ ~EndsWith(value, BackslashN)

\* the index in trace of the latest execution (0: none yet)
LastExecution ==
    IF Executions = <<>> THEN 0
    ELSE CHOOSE i \in DOMAIN trace :
            /\ trace[i].call = "exec"
            /\ \A j \in DOMAIN trace : j > i => trace[j].call # "exec"

\* C33: when a run that made at least one execution has left the loop, final_success
\* says whether the latest execution passed, no FIX was applied after that execution,
\* and the artifacts are the ones it ran; the report returned carries exactly these.
C33_ReportIsLastExecution ==
    (pc \in {"end", "done"} /\ Executions # <<>>) =>
        /\ final_success = IsExec(trace[LastExecution], "pass")
        /\ \A j \in DOMAIN trace : j > LastExecution => trace[j].out # "FIX"
        /\ Artifacts = executed
        /\ pc = "done" =>
              /\ report.is_pass = IsExec(trace[LastExecution], "pass")
              /\ report.code = executed.code
              /\ report.test = executed.test

\* an aborted run whose test had been fixed and re-executed before
C33_Witness ==
    /\ pc = "done"
    /\ Outcome = "ABORTED"
    /\ Len(Executions) >= 2
    /\ ~report.is_pass
    /\ report.test # generated.test
    /\ report.test = executed.test

\* C34: with a budget N >= 1 a run makes at most 2N-1 executions and at most 2(N-1)
\* debug agent calls, none of them in iteration N, and the call counter never exceeds
\* 3 + 2(N-1).
C34_CallBudget ==
    max_loops >= 1 =>
        /\ Len(Executions) <= 2 * max_loops - 1
        /\ Len(Arbitrations) <= 2 * (max_loops - 1)
        /\ calls <= 3 + 2 * (max_loops - 1)
        /\ \A i \in DOMAIN trace :
              trace[i].call \in {"arb_test", "arb_source"} => trace[i].loop < max_loops

\* a run that used all of it
C34_Witness ==
    /\ pc = "done"
    /\ max_loops = MaxLoops
    /\ Len(Executions) = 2 * MaxLoops - 1
    /\ Len(Arbitrations) = 2 * (MaxLoops - 1)
    /\ calls = 3 + 2 * (MaxLoops - 1)

\* a content execute_code can run: a text, and not the empty one
IsProgramText(content) == content \notin {None, ""}

\* C35: whenever execute_code has been called, the content of both artifacts it was
\* given is a non-empty text, also after a FIX whose answer had no fenced block.
C35_ExecutedContentIsText ==
    Executions # <<>> =>
        /\ IsProgramText(executed.code.content)
        /\ IsProgramText(executed.test.content)

\* C37: with a budget N <= 0 the loop body never runs: no execution and no debug agent
\* call is made, the artifacts stay as they were generated, and the report returned
\* says not passed and holds the generated artifacts.
C37_NoBudgetNoLoop ==
    max_loops <= 0 =>
        /\ trace = <<>>
        /\ loop_count = 0
        /\ pc \notin {"execute", "arb_test", "reexecute", "arb_source"}
        /\ ~final_success
        /\ generated # NoneObj => Artifacts = generated
        /\ pc = "done" =>
              /\ ~report.is_pass
              /\ report.code = generated.code
              /\ report.test = generated.test

C37_Witness ==
    /\ max_loops < 0
    /\ pc = "done"
    /\ exit_at = "while"
    /\ ~report.is_pass
    /\ report.code = generated.code

(***************************************************************************)
(* Properties of remove_trailing_slash                                     *)
(***************************************************************************)
\* C36: remove_trailing_slash is idempotent: its result does not end with "/n" or
\* backslash-n, and applying it to its result returns that result.
C36_RemoveTrailingSlashIdempotent ==
    /\ npc \in {"once", "twice"} =>
          /\ ~EndsWith(cleaned, SlashN)
          /\ ~EndsWith(cleaned, BackslashN)
    /\ npc = "twice" => recleaned = cleaned

(***************************************************************************)
(* Properties of run_humaneval_benchmark                                   *)
(***************************************************************************)
\* C38: when the report is printed, results holds one entry for each of the first
\* min(limit, len(dataset)) tasks, in order, whether or not the task passed its own
\* tests; every one of these tasks was run, and total is their number.
C38_EveryTaskRecorded ==
    bpc = "done" =>
        /\ Len(attempted) = TaskCount
        /\ Len(results) = TaskCount
        /\ \A k \in DOMAIN results : results[k].task_id = dataset[k]
        /\ total = Len(attempted)

=============================================================================
